---- MODULE Spec2Model ----
(***************************************************************************)
(* A model of the sdag streaming DAG evaluator.                            *)
(*                                                                         *)
(*   Spec         Engine (src/src/engine.rs): Engine::new, set_trigger,    *)
(*                set_outputs and evaluate_step over a set of node lists.  *)
(*   SpecSampler  Sampler (src/src/lib.rs): Sampler::run, one action per   *)
(*                iteration of its loop over the rows.                     *)
(*   SpecGraph    Graph builder (src/src/lib.rs, src/src/lib_v2.rs): the   *)
(*                node constructors and the two freeze functions.          *)
(*   SpecYaml     engine::from_yaml (src/src/engine.rs) over a set of      *)
(*                documents.                                               *)
(*   SpecDag      DagBuilder and Dag (src/src/dag.rs): add_node, connect,  *)
(*                build, execute and get_node_output over Add nodes and    *)
(*                every connection between them.                           *)
(*   SpecExecute  the same operations over the nodes and connections of    *)
(*                the expression (x + y) * z.                              *)
(*   SpecTwin     two Engines that are built alike and given the same      *)
(*                calls, over node lists that include one with an index    *)
(*                beyond its end.                                          *)
(*   SpecEvaluate  TopologicalEngine::evaluate or LazyEngine::evaluate     *)
(*                (src/src/engines.rs) goes through rows.                  *)
(*   SpecParallel  ParallelEngine::evaluate: one task per row, interleaved. *)
(*   SpecArena    Arena (src/src/arena.rs): insert and get.                 *)
(*   SpecFirstStep  an Engine is driven or a Sampler is run: Spec and      *)
(*                SpecSampler side by side.                                *)
(*                                                                         *)
(* Each specification starts the objects of the other ones in an idle      *)
(* state and never changes them.                                           *)
(*                                                                         *)
(* Numbers.  An f64 is modelled by an integer counting multiples of        *)
(* f64::EPSILON (2^-52): the value x stands for x * EPSILON.  The f64 1.0  *)
(* is One units.  Every number that arises is w * One + f with small       *)
(* integers w (the whole part) and f (the fine part); on these numbers the *)
(* operators FAdd, FSub, FMul and FDiv compute what IEEE-754 computes,     *)
(* rounding to the f64 grid included, and give OutOfDomain where the exact *)
(* f64 result is not such a number.  A step whose evaluation leaves the    *)
(* domain is not presented to the model.                                   *)
(***************************************************************************)
EXTENDS Integers, Sequences, FiniteSets, TLC

VARIABLES
    engine,        \* the Engine object (src/src/engine.rs:14-30)
    input_values,  \* the row given to the last evaluate_step call
    result,        \* what the last evaluate_step call returned
    last_trigger,  \* the trigger node's value at the most recent emitting step
    same_row,      \* the last evaluate_step call got the row of the call before it
    panicked       \* the last evaluate_step call panicked instead of returning

engineVars == <<engine, input_values, result, last_trigger, same_row, panicked>>

VARIABLES
    twin           \* a second Engine that is given every call the first is given

twinVars == <<twin>>

VARIABLES
    sampler,       \* the Sampler object (src/src/lib.rs:235-239), graph parsed
    call           \* the Sampler::run call in progress, or the last one, with
                   \* the rows it has gone through and the number of calls

samplerVars == <<sampler, call>>

VARIABLES
    graph,         \* the Graph builder (src/src/lib.rs:166-170)
    frozen         \* what the last call on the Graph returned, if it was a freeze

graphVars == <<graph, frozen>>

VARIABLES
    document,      \* the YAML document given to from_yaml, parsed
    loaded         \* what from_yaml returned

yamlVars == <<document, loaded>>

VARIABLES
    builder,       \* the DagBuilder (src/src/dag.rs:124-127)
    reply,         \* the last add_node or connect call and what it returned
    dag,           \* what DagBuilder::build returned
    outcome        \* the last execute or get_node_output call on the Dag

dagVars == <<builder, reply, dag, outcome>>

VARIABLES
    evaluation     \* an Engine::evaluate call (src/src/engines.rs): what it is
                   \* given, the rows it has gone through and its results

evaluationVars == <<evaluation>>

VARIABLES
    the_arena,     \* an Arena<T> (src/src/arena.rs:9-12)
    handed         \* the last insert or get call on it and what it returned,
                   \* and what insert returned first for each original id

arenaVars == <<the_arena, handed>>

vars == <<engineVars, twinVars, samplerVars, graphVars, yamlVars, dagVars,
          evaluationVars, arenaVars>>

\* What the actions of one object leave alone: the other objects.
notArena ==
    <<engineVars, twinVars, samplerVars, graphVars, yamlVars, dagVars, evaluationVars>>
notEngine ==
    <<samplerVars, graphVars, yamlVars, dagVars, evaluationVars, arenaVars>>
notSampler ==
    <<engineVars, twinVars, graphVars, yamlVars, dagVars, evaluationVars, arenaVars>>
notGraph ==
    <<engineVars, twinVars, samplerVars, yamlVars, dagVars, evaluationVars, arenaVars>>
notYaml ==
    <<engineVars, twinVars, samplerVars, graphVars, dagVars, evaluationVars, arenaVars>>
notDag ==
    <<engineVars, twinVars, samplerVars, graphVars, yamlVars, evaluationVars, arenaVars>>
notEvaluation ==
    <<engineVars, twinVars, samplerVars, graphVars, yamlVars, dagVars, arenaVars>>

---------------------------------------------------------------------------
(* Bounds                                                                  *)

\* Row values range over 0..MaxVal multiples of EPSILON.
MaxVal == 3

\* A Sampler::run call is given at most MaxRows rows.
MaxRows == 2

\* A Sampler is run at most MaxCalls times.
MaxCalls == 2

\* A Graph builder makes at most MaxNodes node objects.
MaxNodes == 4

\* A document given to from_yaml declares at most MaxYamlNodes nodes.
MaxYamlNodes == 2

---------------------------------------------------------------------------
(* f64 arithmetic on the model's numbers                                   *)

\* f64::EPSILON, the unit of the model's numbers.
EPSILON == 1

\* The f64 1.0 in units of EPSILON.  The real count is 2^52; the model uses
\* a power of two far above every fine part that arises, which keeps whole
\* and fine parts apart exactly as 2^52 does.
One == 2^12

\* f64::NAN and the mark of a result outside the modelled numbers.
NaN == -1000000
OutOfDomain == 2 * NaN

IsNum(x) == x # NaN /\ x # OutOfDomain

Abs(x) == IF x < 0 THEN -x ELSE x

\* Whole and fine part of a number: x = WholePart(x) * One + FinePart(x).
WholePart(x) == (x + (One \div 2)) \div One
FinePart(x) == x - WholePart(x) * One

\* The spacing of f64 values around x, in units of EPSILON: 1 below 2.0,
\* 2 in [2,4), 4 in [4,8), ...
Ulp(x) ==
    IF Abs(x) < 2 * One THEN 1
    ELSE 2 ^ (CHOOSE e \in 1..16 : 2^e * One <= Abs(x) /\ Abs(x) < 2^(e+1) * One)

\* Round an exact result to the nearest f64, ties to the even mantissa.
Round(x) ==
    LET u == Ulp(x)
        q == x \div u
        r == x % u
    IN  IF r = 0 THEN x
        ELSE IF 2 * r < u THEN q * u
        ELSE IF 2 * r > u THEN (q + 1) * u
        ELSE IF q % 2 = 0 THEN q * u ELSE (q + 1) * u

FAdd(x, y) ==
    IF x = OutOfDomain \/ y = OutOfDomain THEN OutOfDomain
    ELSE IF x = NaN \/ y = NaN THEN NaN
    ELSE Round(x + y)

FSub(x, y) ==
    IF x = OutOfDomain \/ y = OutOfDomain THEN OutOfDomain
    ELSE IF x = NaN \/ y = NaN THEN NaN
    ELSE Round(x - y)

\* A number the model can tell from its neighbours: the fine part is small.
InDomain(x) == Abs(FinePart(x)) * 4 < One

\* x / y by a positive whole y that divides x; every other quotient is
\* outside the modelled numbers (as is the infinity of a division by 0.0).
FDiv(x, y) ==
    IF x = OutOfDomain \/ y = OutOfDomain THEN OutOfDomain
    ELSE IF x = NaN \/ y = NaN THEN NaN
    ELSE IF y <= 0 \/ FinePart(y) # 0 THEN OutOfDomain
    ELSE IF x % WholePart(y) # 0 THEN OutOfDomain
    ELSE Round(x \div WholePart(y))

\* x * y.  The exact product of w1*One + f1 and w2*One + f2 is
\* w1*w2*One + w1*f2 + w2*f1 units plus f1*f2 units of EPSILON^2; the model
\* has no numbers below EPSILON, so a product with f1*f2 # 0 is OutOfDomain.
FMul(x, y) ==
    IF x = OutOfDomain \/ y = OutOfDomain THEN OutOfDomain
    ELSE IF x = NaN \/ y = NaN THEN NaN
    ELSE IF FinePart(x) * FinePart(y) # 0 THEN OutOfDomain
    ELSE Round(WholePart(x) * WholePart(y) * One
               + WholePart(x) * FinePart(y) + WholePart(y) * FinePart(x))

\* f64::abs
FAbs(x) == IF IsNum(x) THEN Abs(x) ELSE x

\* The comparisons of f64: every comparison with NaN is false, except !=.
FGt(x, y) == IsNum(x) /\ IsNum(y) /\ x > y
FLt(x, y) == IsNum(x) /\ IsNum(y) /\ x < y
FEq(x, y) == IsNum(x) /\ IsNum(y) /\ x = y
FNe(x, y) == ~FEq(x, y)

---------------------------------------------------------------------------
(* Option<T> and Vec<T>                                                    *)

None == <<>>
Some(x) == <<x>>
IsSome(o) == o # <<>>
Unwrap(o) == o[1]

\* A Vec indexed by NodeId is a function on 0..n-1.
VecLen(v) == Cardinality(DOMAIN v)
Fill(n, x) == [i \in 0..(n-1) |-> x]

---------------------------------------------------------------------------
(* NodeOp, as src/src/engine.rs matches on it                              *)

Constant(val) == [op |-> "Constant", value |-> val]
Input(idx) == [op |-> "Input", input_index |-> idx]
Add(x, y) == [op |-> "Add", a |-> x, b |-> y]
Multiply(x, y) == [op |-> "Multiply", a |-> x, b |-> y]
Sum(ins) == [op |-> "Sum", inputs |-> ins]
ConstantProduct(in, k) == [op |-> "ConstantProduct", input |-> in, factor |-> k]
Comparison(x, y, c) == [op |-> "Comparison", a |-> x, b |-> y, cmp |-> c]

\* A Vec literal: the function on 0..n-1 of a sequence.
Vec(s) == [i \in 0..(Len(s) - 1) |-> s[i + 1]]

\* The input indices a node reads, in the order the code reads them.
InputsOf(node) ==
    CASE node.op \in {"Add", "Multiply", "Comparison"} -> <<node.a, node.b>>
      [] node.op = "Sum" -> node.inputs
      [] node.op = "ConstantProduct" -> <<node.input>>
      [] OTHER -> <<>>

\* Every input index is smaller than the node's own index.
Topological(nodes) ==
    \A i \in DOMAIN nodes :
        \A k \in DOMAIN InputsOf(nodes[i]) : InputsOf(nodes[i])[k] < i

---------------------------------------------------------------------------
(* Engine                                                                  *)

\* The (node_id, input_index) pairs of the Input nodes, by node id.
RECURSIVE InputNodesFrom(_, _)
InputNodesFrom(nodes, i) ==
    IF i >= VecLen(nodes) THEN <<>>
    ELSE (IF nodes[i].op = "Input" THEN <<<<i, nodes[i].input_index>>>> ELSE <<>>)
         \o InputNodesFrom(nodes, i + 1)

EngineNew(nodes) ==
    [ nodes        |-> nodes,
      values       |-> Fill(VecLen(nodes), 0),
      prev_values  |-> Fill(VecLen(nodes), 0),
      changed      |-> Fill(VecLen(nodes), FALSE),
      input_nodes  |-> InputNodesFrom(nodes, 0),
      trigger_node |-> None,
      output_nodes |-> <<>>,
      first_run    |-> TRUE ]

\* inputs.iter().map(|&idx| values[idx]).sum(): a left fold from 0.0; acc is
\* the sum of the first k-1 inputs.
RECURSIVE SumOf(_, _, _, _)
SumOf(values, ins, k, acc) ==
    IF k > Len(ins) THEN acc
    ELSE SumOf(values, ins, k + 1, FAdd(acc, values[ins[k]]))

\* The comparison of a Comparison node: 1.0 or 0.0.
Compare(c, va, vb) ==
    IF va = OutOfDomain \/ vb = OutOfDomain THEN OutOfDomain ELSE
    CASE c = "GreaterThan" -> IF FGt(va, vb) THEN One ELSE 0
      [] c = "LessThan" -> IF FLt(va, vb) THEN One ELSE 0
      [] c = "Equal" -> IF FLt(FAbs(FSub(va, vb)), EPSILON) THEN One ELSE 0

\* The value compute_node gives node i from the values array.
NodeValue(nodes, values, i) ==
    LET node == nodes[i] IN
    CASE node.op = "Constant" -> node.value
      [] node.op = "Input" -> values[i]
      [] node.op = "Add" -> FAdd(values[node.a], values[node.b])
      [] node.op = "Multiply" -> FMul(values[node.a], values[node.b])
      [] node.op = "Sum" -> SumOf(values, node.inputs, 1, 0)
      [] node.op = "ConstantProduct" -> FMul(values[node.input], node.factor)
      [] node.op = "Comparison" -> Compare(node.cmp, values[node.a], values[node.b])

compute_node(nodes, values, i) ==
    [values EXCEPT ![i] = NodeValue(nodes, values, i)]

check_inputs_changed(nodes, changed, node_id) ==
    LET node == nodes[node_id] IN
    CASE node.op \in {"Add", "Multiply"} -> changed[node.a] \/ changed[node.b]
      [] node.op = "Sum" -> \E k \in DOMAIN node.inputs :
                                /\ \A j \in 1..(k - 1) : ~changed[node.inputs[j]]
                                /\ changed[node.inputs[k]]
      [] node.op = "ConstantProduct" -> changed[node.input]
      [] node.op = "Comparison" -> changed[node.a] \/ changed[node.b]
      [] OTHER -> FALSE

\* check_inputs_changed panics: it indexes changed, in the order of the
\* node's inputs and up to the first flag that is true, and it meets an
\* index that is out of bounds.
IndexPanics(node, changed) ==
    \E k \in DOMAIN InputsOf(node) :
        /\ InputsOf(node)[k] \notin DOMAIN changed
        /\ \A j \in 1..(k - 1) : /\ InputsOf(node)[j] \in DOMAIN changed
                                  /\ ~changed[InputsOf(node)[j]]

\* The input indices of the nodes that are out of the bounds of the arrays:
\* get_unchecked reads them from the memory beyond the buffer of values.
BeyondIndices(nodes) ==
    UNION {{InputsOf(nodes[i])[k] : k \in DOMAIN InputsOf(nodes[i])} : i \in DOMAIN nodes}
        \ DOMAIN nodes

\* The first n elements of an array.
Within(values, n) == [i \in 0..(n - 1) |-> values[i]]

\* (new_val - old_val).abs() > f64::EPSILON, the test of an Input node.
InputChanged(new_val, old_val) == FGt(FAbs(FSub(new_val, old_val)), EPSILON)

\* A test that takes every difference for a change.
NodeChangedAtAll(new_val, old_val) == FNe(new_val, old_val)

\* (new_val - old_val).abs() > f64::EPSILON, the test of a recomputed node.
NodeChanged(new_val, old_val) == FGt(FAbs(FSub(new_val, old_val)), EPSILON)

\* First run, "Set input values": every Input node takes its row value.
RECURSIVE SetInputs(_, _, _, _)
SetInputs(input_nodes, row, values, k) ==
    IF k > Len(input_nodes) THEN values
    ELSE SetInputs(input_nodes, row,
                   [values EXCEPT ![input_nodes[k][1]] = row[input_nodes[k][2]]],
                   k + 1)

\* First run, "Compute all nodes in topological order", from node i on.
RECURSIVE ComputeAll(_, _, _)
ComputeAll(nodes, values, i) ==
    IF i >= VecLen(nodes) THEN values
    ELSE ComputeAll(nodes,
                    IF nodes[i].op # "Input" THEN compute_node(nodes, values, i)
                    ELSE values,
                    i + 1)

\* Incremental update, "Update input nodes and mark dirty if changed".
\* st is [values, changed].
RECURSIVE UpdateInputs(_, _, _, _, _)
UpdateInputs(input_nodes, row, prev_values, st, k) ==
    IF k > Len(input_nodes) THEN st
    ELSE LET node_id == input_nodes[k][1]
             new_val == row[input_nodes[k][2]]
             old_val == prev_values[node_id]
         IN  UpdateInputs(input_nodes, row, prev_values,
                 IF InputChanged(new_val, old_val)
                 THEN [st EXCEPT !.values = [st.values EXCEPT ![node_id] = new_val],
                                 !.changed = [st.changed EXCEPT ![node_id] = TRUE]]
                 ELSE st,
                 k + 1)

\* A single pass that takes every Constant as changed.
RECURSIVE SinglePassConstants(_, _, _, _)
SinglePassConstants(nodes, prev_values, st, i) ==
    IF i >= VecLen(nodes) THEN st
    ELSE IF nodes[i].op = "Input"
         THEN SinglePassConstants(nodes, prev_values, st, i + 1)
    ELSE IF nodes[i].op = "Constant"
         THEN SinglePassConstants(nodes, prev_values,
                  [st EXCEPT !.changed = [st.changed EXCEPT ![i] = TRUE]], i + 1)
    ELSE IF IndexPanics(nodes[i], st.changed)
         THEN [st EXCEPT !.panic = TRUE]
    ELSE IF check_inputs_changed(nodes, st.changed, i)
         THEN LET old_val == prev_values[i]
                  vals == compute_node(nodes, st.values, i)
                  new_val == vals[i]
              IN  SinglePassConstants(nodes, prev_values,
                      [st EXCEPT !.values = vals,
                                 !.changed = IF NodeChanged(new_val, old_val)
                                             THEN [st.changed EXCEPT ![i] = TRUE]
                                             ELSE st.changed],
                      i + 1)
    ELSE SinglePassConstants(nodes, prev_values, st, i + 1)

\* Incremental update, "Single pass evaluation in topological order"; it
\* ends at a node whose check_inputs_changed panics.
RECURSIVE SinglePass(_, _, _, _)
SinglePass(nodes, prev_values, st, i) ==
    IF i >= VecLen(nodes) THEN st
    ELSE IF nodes[i].op \in {"Input", "Constant"}
         THEN SinglePass(nodes, prev_values, st, i + 1)
    ELSE IF IndexPanics(nodes[i], st.changed)
         THEN [st EXCEPT !.panic = TRUE]
    ELSE IF check_inputs_changed(nodes, st.changed, i)
         THEN LET old_val == prev_values[i]
                  vals == compute_node(nodes, st.values, i)
                  new_val == vals[i]
              IN  SinglePass(nodes, prev_values,
                      [st EXCEPT !.values = vals,
                                 !.changed = IF NodeChanged(new_val, old_val)
                                             THEN [st.changed EXCEPT ![i] = TRUE]
                                             ELSE st.changed],
                      i + 1)
    ELSE SinglePass(nodes, prev_values, st, i + 1)

\* An Engine whose first run marks no node changed.
MarkNoneDirty(e) == Fill(VecLen(e.nodes), FALSE)

\* An Engine whose later runs keep the changed flags of the run before.
KeepChanged(e) == e.changed

\* self.changed.fill(true) of the first run.
MarkAllDirty(e) == Fill(VecLen(e.nodes), TRUE)

\* self.changed.fill(false) of an incremental update.
ClearChanged(e) == Fill(VecLen(e.nodes), FALSE)

\* The values and changed flags evaluate_step(row) computes: the first run
\* or the incremental update.  beyond is what the memory after the buffer
\* of values holds, at the indices the nodes read there.
Evaluate(e, row, beyond) ==
    IF e.first_run
    THEN [values  |-> ComputeAll(e.nodes,
                          SetInputs(e.input_nodes, row, e.values, 1) @@ beyond, 0),
          changed |-> MarkAllDirty(e),
          panic   |-> FALSE]
    ELSE LET st == UpdateInputs(e.input_nodes, row, e.prev_values,
                       [values |-> e.prev_values, changed |-> ClearChanged(e),
                        panic |-> FALSE], 1)
         IN  SinglePass(e.nodes, e.prev_values,
                        [st EXCEPT !.values = @ @@ beyond], 0)

\* An evaluate_step that does not save the values for the next step.
StepEngineUnsaved(e, st) ==
    [e EXCEPT !.values = Within(st.values, VecLen(e.nodes)),
              !.changed = st.changed,
              !.first_run = IF st.panic THEN @ ELSE FALSE]

\* The Engine after evaluate_step(row): the computed state, then "Save
\* current values for next iteration", which a panic does not reach.
StepEngine(e, st) ==
    IF st.panic
    THEN [e EXCEPT !.values = Within(st.values, VecLen(e.nodes)),
                   !.changed = st.changed]
    ELSE [e EXCEPT !.values = Within(st.values, VecLen(e.nodes)),
                   !.changed = st.changed,
                   !.prev_values = Within(st.values, VecLen(e.nodes)),
                   !.first_run = FALSE]

\* input_values[input_idx] is out of bounds for some Input node.
PanicsOn(e, row) ==
    \E k \in DOMAIN e.input_nodes : e.input_nodes[k][2] \notin DOMAIN row

\* The Input nodes the loop over input_nodes handles before it panics.
BeforePanic(e, row) ==
    SubSeq(e.input_nodes, 1,
           (CHOOSE k \in DOMAIN e.input_nodes :
               /\ e.input_nodes[k][2] \notin DOMAIN row
               /\ \A j \in 1..(k - 1) : e.input_nodes[j][2] \in DOMAIN row) - 1)

\* The Engine a panicking evaluate_step(row) leaves behind: what it wrote up
\* to the Input node it could not read.
PanicEngine(e, row) ==
    IF e.first_run
    THEN [e EXCEPT !.changed = MarkAllDirty(e),
                   !.values = SetInputs(BeforePanic(e, row), row, e.values, 1)]
    ELSE LET st == UpdateInputs(BeforePanic(e, row), row, e.prev_values,
                       [values |-> e.prev_values, changed |-> ClearChanged(e),
                        panic |-> TRUE], 1)
         IN  [e EXCEPT !.values = st.values, !.changed = st.changed]

get_value(e, node_id) == e.values[node_id]

\* "Check trigger and emit outputs if fired", on the Engine after the step.
Fires(e) == IsSome(e.trigger_node) /\ e.changed[Unwrap(e.trigger_node)]

\* An evaluate_step that emits when any node changed, trigger or not.
StepResultAny(e) ==
    IF \E i \in DOMAIN e.changed : e.changed[i]
    THEN Some([k \in DOMAIN e.output_nodes |-> e.values[e.output_nodes[k]]])
    ELSE None

StepResult(e) ==
    IF Fires(e)
    THEN Some([k \in DOMAIN e.output_nodes |-> e.values[e.output_nodes[k]]])
    ELSE None

\* What the memory beyond the buffer of values can hold.
Garbage == {0, One}

\* What evaluate_step(row) can do to the Engine e: the Engine after it, what
\* it returns, and whether it panics instead of returning.
Outcome(e, st) ==
    [engine |-> StepEngine(e, st),
     result |-> IF st.panic THEN None ELSE StepResult(StepEngine(e, st)),
     panicked |-> st.panic]

Outcomes(e, row) ==
    IF PanicsOn(e, row)
    THEN {[engine |-> PanicEngine(e, row), result |-> None, panicked |-> TRUE]}
    ELSE {Outcome(e, st) :
             st \in {Evaluate(e, row, beyond) :
                        beyond \in [BeyondIndices(e.nodes) -> Garbage]}}

\* No number of the Engine has left the numbers of the model.
InModel(e) == \A i \in DOMAIN e.values : e.values[i] # OutOfDomain

---------------------------------------------------------------------------
(* The node lists, rows and output lists the model runs the Engine on      *)

\* The positions of a row that the node lists read.
InputIndices == 0..1

\* g1 of the specification, (a + b) * 2.
GraphG1 == Vec(<<Input(0), Input(1), Add(0, 1), ConstantProduct(2, 2 * One)>>)

\* g2 of the specification, (a + b) > c.
GraphG2 == Vec(<<Input(0), Input(1), Add(0, 1), Constant(2),
                 Comparison(2, 3, "GreaterThan")>>)

\* A gate: a + b where a < b, else 0.
GraphGate == Vec(<<Input(0), Input(1), Sum(<<0, 1>>),
                   Comparison(0, 1, "LessThan"), Multiply(3, 2)>>)

\* Numbers above 1.0, where f64 rounds: (1 + a) + 1, and |a - b| < EPSILON.
GraphRound == Vec(<<Constant(One), Input(0), Add(0, 1), Add(2, 0),
                    Input(1), Comparison(1, 4, "Equal")>>)

Graphs == {GraphG1, GraphG2, GraphGate, GraphRound}

Rows == [InputIndices -> 0..MaxVal]

\* Rows that are too short for some Input node of every node list.
ShortRows == UNION {[0..(n - 1) -> 0..MaxVal] : n \in 0..1}

\* The output list set_outputs is called with: the last node, then the first.
OutputLists(nodes) == {<<VecLen(nodes) - 1, 0>>}

---------------------------------------------------------------------------
(* Specification of the Engine                                             *)

\* No Sampler has been made.
SamplerIdle ==
    /\ sampler = [graph |-> [nodes |-> <<>>, root |-> 0], outputs |-> <<>>]
    /\ call = [active |-> FALSE, n_rows |-> 0, row |-> <<>>, values |-> <<>>,
               prev_trigger |-> None, pushed |-> FALSE, results |-> <<>>,
               same_row |-> FALSE, returned |-> None, rows |-> <<>>,
               calls |-> 0]

EngineInit ==
    /\ engine \in {EngineNew(nodes) : nodes \in Graphs}
    /\ input_values = <<>>
    /\ result = None
    /\ last_trigger = None
    /\ same_row = FALSE
    /\ panicked = FALSE
    /\ twin = None

\* No Graph builder has been made.
GraphIdle ==
    /\ graph = [counter |-> 0, registry |-> << >>]
    /\ frozen = None

\* from_yaml has not been called.
YamlIdle ==
    /\ document = <<>>
    /\ loaded = None

\* No DagBuilder has been made.
DagIdle ==
    /\ builder = [nodes |-> << >>]
    /\ reply = None
    /\ dag = None
    /\ outcome = None

\* No Engine::evaluate call has been made.
EvaluationIdle == evaluation = None

\* No Arena has been made.
ArenaIdle ==
    /\ the_arena = [nodes |-> <<>>, shared_refs |-> <<>>]
    /\ handed = [last |-> None, first |-> <<>>]

Init ==
    EngineInit /\ SamplerIdle /\ GraphIdle /\ YamlIdle /\ DagIdle /\ EvaluationIdle
        /\ ArenaIdle

\* Engine::set_trigger, called before the first evaluate_step.
set_trigger(trigger) ==
    /\ engine.first_run /\ ~panicked
    /\ engine' = [engine EXCEPT !.trigger_node = Some(trigger)]
    /\ UNCHANGED <<input_values, result, last_trigger, same_row, panicked, notEngine>>

\* Engine::set_outputs, called before the first evaluate_step.
set_outputs(outputs) ==
    /\ engine.first_run /\ ~panicked
    /\ engine' = [engine EXCEPT !.output_nodes = outputs]
    /\ UNCHANGED <<input_values, result, last_trigger, same_row, panicked, notEngine>>

\* Engine::evaluate_step.  A row with no element at the input_index of an
\* Input node makes input_values[input_idx] panic; the panic unwinds out of
\* the caller and the Engine is used no more.
evaluate_step(row) ==
    /\ ~panicked
    /\ input_values' = row
    /\ same_row' = (~engine.first_run /\ row = input_values)
    /\ \E o \in Outcomes(engine, row) :
          /\ InModel(o.engine)
          /\ engine' = o.engine
          /\ result' = o.result
          /\ panicked' = o.panicked
          /\ last_trigger' = IF ~o.panicked /\ Fires(o.engine)
                             THEN Some(o.engine.values[Unwrap(o.engine.trigger_node)])
                             ELSE last_trigger
    /\ UNCHANGED notEngine

Next ==
    \/ \E t \in DOMAIN engine.nodes : set_trigger(t) /\ UNCHANGED twin
    \/ \E o \in OutputLists(engine.nodes) : set_outputs(o) /\ UNCHANGED twin
    \/ \E row \in Rows \cup ShortRows : evaluate_step(row) /\ UNCHANGED twin

Spec == Init /\ [][Next]_vars

\* Two Engines: the second is built from the node list of the first and is
\* given every call the first is given.

\* A node list with an input index beyond its end: a + (what lies behind
\* the values).
GraphBeyond == Vec(<<Input(0), Add(2, 0)>>)

TwinInit ==
    /\ engine \in {EngineNew(nodes) : nodes \in Graphs \cup {GraphBeyond}}
    /\ input_values = <<>>
    /\ result = None
    /\ last_trigger = None
    /\ same_row = FALSE
    /\ panicked = FALSE
    /\ twin = Some([engine |-> engine, result |-> None, panicked |-> FALSE])

twin_set_trigger(trigger) ==
    twin' = Some([Unwrap(twin) EXCEPT !.engine.trigger_node = Some(trigger)])

twin_set_outputs(outputs) ==
    twin' = Some([Unwrap(twin) EXCEPT !.engine.output_nodes = outputs])

twin_evaluate_step(row) ==
    /\ ~Unwrap(twin).panicked
    /\ \E o \in Outcomes(Unwrap(twin).engine, row) :
          /\ InModel(o.engine)
          /\ twin' = Some(o)

TwinNext ==
    \/ \E t \in DOMAIN engine.nodes : set_trigger(t) /\ twin_set_trigger(t)
    \/ \E o \in OutputLists(engine.nodes) : set_outputs(o) /\ twin_set_outputs(o)
    \/ \E row \in Rows \cup ShortRows : evaluate_step(row) /\ twin_evaluate_step(row)

InitTwin ==
    TwinInit /\ SamplerIdle /\ GraphIdle /\ YamlIdle /\ DagIdle /\ EvaluationIdle
        /\ ArenaIdle

SpecTwin == InitTwin /\ [][TwinNext]_vars

---------------------------------------------------------------------------
(* Sampler (src/src/lib.rs)                                                *)

\* The nodes of an arena, as Sampler::run builds them from tag and fields.
InputNode(n) == [tag |-> "input", name |-> n]
ConstNode(v) == [tag |-> "const", value |-> v]
AddNode(c) == [tag |-> "add", children |-> c]
MulNode(c) == [tag |-> "mul", children |-> c]
DivNode(l, r) == [tag |-> "div", left |-> l, right |-> r]

\* *inputs.get(&self.name).unwrap_or(&0.0)
RowGet(row, name) == IF name \in DOMAIN row THEN row[name] ELSE 0

\* children.iter().map(|&id| values[id]).sum(), a left fold from 0.0.
RECURSIVE ChildSum(_, _, _, _)
ChildSum(values, children, k, acc) ==
    IF k > Len(children) THEN acc
    ELSE ChildSum(values, children, k + 1, FAdd(acc, values[children[k]]))

\* A product that is 0.0 for a node without children.
RECURSIVE ChildProductOrZero(_, _, _, _)
ChildProductOrZero(values, children, k, acc) ==
    IF children = <<>> THEN 0
    ELSE IF k > Len(children) THEN acc
    ELSE ChildProductOrZero(values, children, k + 1, FMul(acc, values[children[k]]))

\* children.iter().map(|&id| values[id]).product(), a left fold from 1.0.
RECURSIVE ChildProduct(_, _, _, _)
ChildProduct(values, children, k, acc) ==
    IF k > Len(children) THEN acc
    ELSE ChildProduct(values, children, k + 1, FMul(acc, values[children[k]]))

\* A division that answers 0.0 for a zero divisor.
DivEvalZero(l, r) == IF FEq(r, 0) THEN 0 ELSE FDiv(l, r)

\* DivNode::eval: if r == 0.0 { f64::NAN } else { l / r }
DivEval(l, r) == IF FEq(r, 0) THEN NaN ELSE FDiv(l, r)

\* eval_arena of a node, from the values array and the row.
eval_arena(node, values, row) ==
    CASE node.tag = "input" -> RowGet(row, node.name)
      [] node.tag = "const" -> node.value
      [] node.tag = "add" -> ChildSum(values, node.children, 1, 0)
      [] node.tag = "mul" -> ChildProduct(values, node.children, 1, One)
      [] node.tag = "div" -> DivEval(values[node.left], values[node.right])

\* "Build nodes manually based on tag" fails on a tag it does not know.
KnownTags == {"input", "const", "add", "mul", "div"}
BuildsNodes(arena) == \A i \in DOMAIN arena.nodes : arena.nodes[i].tag \in KnownTags

\* "Evaluate all nodes": values[i] = nodes[i].eval_arena(&values, &row) for
\* i from 0 up, on an array that starts as zeros.
RECURSIVE EvalAll(_, _, _, _)
EvalAll(nodes, row, values, i) ==
    IF i >= VecLen(nodes) THEN values
    ELSE EvalAll(nodes, row,
                 [values EXCEPT ![i] = eval_arena(nodes[i], values, row)], i + 1)

\* prev_trigger.map_or(true, |p| p != trigger_val)
TriggerFires(prev_trigger, trigger_val) ==
    IF IsSome(prev_trigger) THEN FNe(Unwrap(prev_trigger), trigger_val) ELSE TRUE

\* format!("output{}", i)
OutputKey(i) ==
    <<"output0", "output1", "output2", "output3", "output4", "output5", "output6">>[i + 1]

\* A record that names each output by its node id, not by its position.
RecordByNode(trigger_val, outputs, values) ==
    [key \in {"trigger"} \cup {OutputKey(outputs[i]) : i \in DOMAIN outputs} |->
        IF key = "trigger" THEN trigger_val
        ELSE values[CHOOSE o \in {outputs[i] : i \in DOMAIN outputs} : OutputKey(o) = key]]

\* The record of an emitting row: "trigger" and one "output{i}" per output.
Record(trigger_val, outputs, values) ==
    [key \in {"trigger"} \cup {OutputKey(i - 1) : i \in DOMAIN outputs} |->
        IF key = "trigger" THEN trigger_val
        ELSE values[outputs[CHOOSE i \in DOMAIN outputs : OutputKey(i - 1) = key]]]

\* The arenas, rows and output lists the model runs the Sampler on.

\* a / b
ArenaDiv == [nodes |-> Vec(<<InputNode("a"), InputNode("b"), DivNode(0, 1)>>),
             root |-> 2]

\* g1 of the specification: trigger a + b, with (a + b) * 2 behind it.
ArenaG1 == [nodes |-> Vec(<<InputNode("a"), InputNode("b"), AddNode(<<0, 1>>),
                            ConstNode(2 * One), MulNode(<<2, 3>>)>>),
            root |-> 2]

\* (a + b) / (a * b), the trigger being the quotient.
ArenaRatio == [nodes |-> Vec(<<InputNode("a"), InputNode("b"), AddNode(<<0, 1>>),
                               MulNode(<<0, 1>>), DivNode(2, 3)>>),
               root |-> 4]

\* A node of a kind Sampler::run does not know.
ArenaUnknown == [nodes |-> Vec(<<InputNode("a"), [tag |-> "pow", left |-> 0, right |-> 0]>>),
                 root |-> 1]

\* Every kind of node, with an Add and a Mul that have no children:
\* ((a + 2 + 1) * 2) / 1.
ArenaKinds == [nodes |-> Vec(<<InputNode("a"), ConstNode(2 * One), AddNode(<<>>),
                               MulNode(<<>>), AddNode(<<0, 1, 3>>), MulNode(<<1, 4>>),
                               DivNode(5, 3)>>),
               root |-> 6]

\* An arena that is not in topological order: the Add comes before its child.
ArenaForward == [nodes |-> Vec(<<AddNode(<<1>>), InputNode("a")>>), root |-> 0]

Arenas == {ArenaDiv, ArenaG1, ArenaRatio, ArenaUnknown, ArenaKinds, ArenaForward}

ChannelNames == {"a", "b"}
ChannelValues == {0, One, 2 * One}

\* A row maps some of the channel names to values.
SamplerRows == UNION {[names -> ChannelValues] : names \in SUBSET ChannelNames}

SamplerOutputs(arena) == {<<>>, <<VecLen(arena.nodes) - 1, 0>>}

SamplerInit ==
    /\ sampler \in UNION {{[graph |-> arena, outputs |-> outs] :
                               outs \in SamplerOutputs(arena)} : arena \in Arenas}
    /\ call = [active |-> FALSE, n_rows |-> 0, row |-> <<>>, values |-> <<>>,
               prev_trigger |-> None, pushed |-> FALSE, results |-> <<>>,
               same_row |-> FALSE, returned |-> None, rows |-> <<>>,
               calls |-> 0]

\* A run that goes on from the last trigger of the call before.
run_begin_keeping ==
    /\ ~call.active
    /\ call.calls < MaxCalls
    /\ call' = IF BuildsNodes(sampler.graph)
               THEN [call EXCEPT !.active = TRUE, !.n_rows = 0, !.row = <<>>,
                                 !.values = <<>>,
                                 !.pushed = FALSE, !.results = <<>>,
                                 !.same_row = FALSE, !.returned = None,
                                 !.rows = <<>>, !.calls = @ + 1]
               ELSE [call EXCEPT !.n_rows = 0, !.row = <<>>, !.values = <<>>,
                                 !.prev_trigger = None, !.pushed = FALSE,
                                 !.results = <<>>, !.same_row = FALSE,
                                 !.returned = Some("Err"),
                                 !.rows = <<>>, !.calls = @ + 1]
    /\ UNCHANGED <<sampler, notSampler>>

\* Sampler::run is called: the nodes are built, or the call fails at once.
run_begin ==
    /\ ~call.active
    /\ call.calls < MaxCalls
    /\ call' = IF BuildsNodes(sampler.graph)
               THEN [call EXCEPT !.active = TRUE, !.n_rows = 0, !.row = <<>>,
                                 !.values = <<>>, !.prev_trigger = None,
                                 !.pushed = FALSE, !.results = <<>>,
                                 !.same_row = FALSE, !.returned = None,
                                 !.rows = <<>>, !.calls = @ + 1]
               ELSE [call EXCEPT !.n_rows = 0, !.row = <<>>, !.values = <<>>,
                                 !.prev_trigger = None, !.pushed = FALSE,
                                 !.results = <<>>, !.same_row = FALSE,
                                 !.returned = Some("Err"),
                                 !.rows = <<>>, !.calls = @ + 1]
    /\ UNCHANGED <<sampler, notSampler>>

\* One iteration of "for row in rows".
run_row(row) ==
    /\ call.active
    /\ call.n_rows < MaxRows
    /\ \E values \in {EvalAll(sampler.graph.nodes, row,
                              Fill(VecLen(sampler.graph.nodes), 0), 0)} :
         LET trigger_val == values[sampler.graph.root]
             fires == TriggerFires(call.prev_trigger, trigger_val)
         IN  /\ \A i \in DOMAIN values : values[i] # OutOfDomain
             /\ call' = [call EXCEPT
                    !.n_rows = @ + 1,
                    !.same_row = (call.n_rows > 0 /\ row = call.row),
                    !.row = row,
                    !.rows = Append(@, row),
                    !.values = values,
                    !.pushed = fires,
                    !.results = IF fires
                                THEN Append(@, Record(trigger_val, sampler.outputs, values))
                                ELSE @,
                    !.prev_trigger = IF fires THEN Some(trigger_val) ELSE @]
    /\ UNCHANGED <<sampler, notSampler>>

\* The rows are used up: Ok(results).
run_return ==
    /\ call.active
    /\ call' = [call EXCEPT !.active = FALSE, !.returned = Some("Ok")]
    /\ UNCHANGED <<sampler, notSampler>>

\* No Engine has been made.
EngineIdle ==
    /\ engine = EngineNew(<<>>)
    /\ input_values = <<>>
    /\ result = None
    /\ last_trigger = None
    /\ same_row = FALSE
    /\ panicked = FALSE
    /\ twin = None

SamplerNext ==
    \/ run_begin
    \/ \E row \in SamplerRows : run_row(row)
    \/ run_return

InitSampler ==
    SamplerInit /\ EngineIdle /\ GraphIdle /\ YamlIdle /\ DagIdle /\ EvaluationIdle
        /\ ArenaIdle

SpecSampler == InitSampler /\ [][SamplerNext]_vars

---------------------------------------------------------------------------
(* TopologicalEngine and LazyEngine (src/src/engines.rs)                   *)

\* record.insert("trigger", ...); then, per output in order,
\* record.insert(format!("output{}", output_id), value): a later insert
\* under a key replaces the earlier one.  outs is the values of the outputs.
RECURSIVE InsertOutputs(_, _, _, _)
InsertOutputs(record, outputs, outs, k) ==
    IF k > Len(outputs) THEN record
    ELSE InsertOutputs(
             [key \in DOMAIN record \cup {OutputKey(outputs[k])} |->
                 IF key = OutputKey(outputs[k]) THEN outs[k] ELSE record[key]],
             outputs, outs, k + 1)

\* One row of TopologicalEngine::evaluate: all nodes in index order, then
\* the record.
TopologicalRecord(nodes, root, outputs, row) ==
    LET values == EvalAll(nodes, row, Fill(VecLen(nodes), 0), 0)
    IN  InsertOutputs([key \in {"trigger"} |-> values[root]], outputs,
                      [k \in DOMAIN outputs |-> values[outputs[k]]], 1)

\* LazyEngine::evaluate_node: the value the node already has, or else
\* eval_arena on an array that holds 0.0 for every node without a value.
evaluate_node(node_id, nodes, values, row) ==
    IF IsSome(values[node_id]) THEN values
    ELSE LET value_array == [i \in DOMAIN values |->
                                IF IsSome(values[i]) THEN Unwrap(values[i]) ELSE 0]
         IN  [values EXCEPT ![node_id] = Some(eval_arena(nodes[node_id], value_array, row))]

\* "Evaluate outputs": evaluate_node on each output in order; the values
\* array after the first k-1 outputs is values.
RECURSIVE LazyOutputs(_, _, _, _, _, _)
LazyOutputs(nodes, outputs, values, row, k, outs) ==
    IF k > Len(outputs) THEN outs
    ELSE LET after == evaluate_node(outputs[k], nodes, values, row)
         IN  LazyOutputs(nodes, outputs, after, row, k + 1,
                         Append(outs, Unwrap(after[outputs[k]])))

\* One row of LazyEngine::evaluate: the root, then the outputs.
LazyRecord(nodes, root, outputs, row) ==
    LET values == evaluate_node(root, nodes, Fill(VecLen(nodes), None), row)
    IN  InsertOutputs([key \in {"trigger"} |-> Unwrap(values[root])], outputs,
                      LazyOutputs(nodes, outputs, values, row, 1, <<>>), 1)

\* The arenas and output lists the engines are run on: nodes that were
\* built, so of known kinds.
EvaluatedArenas == {ArenaDiv, ArenaG1, ArenaForward}
EvaluatedOutputs(arena) == {<<>>, <<VecLen(arena.nodes) - 1, 0>>, <<arena.root, arena.root>>}

EvaluationInit ==
    evaluation \in
        UNION {{Some([name |-> name, nodes |-> arena.nodes, root |-> arena.root,
                      outputs |-> outs, rows |-> <<>>, results |-> <<>>,
                      returned |-> FALSE]) :
                   name \in {"topological", "lazy"}, outs \in EvaluatedOutputs(arena)} :
               arena \in EvaluatedArenas}

\* The engine name serves a call that has rows left.
Serving(name) ==
    /\ IsSome(evaluation)
    /\ Unwrap(evaluation).name = name
    /\ ~Unwrap(evaluation).returned
    /\ Len(Unwrap(evaluation).rows) < MaxRows

\* results.push(record) at the end of an iteration of "for row in rows".
PushRecord(c, row, record) ==
    [c EXCEPT !.rows = Append(@, row), !.results = Append(@, record)]

\* One iteration of "for row in rows" of TopologicalEngine::evaluate.
TopologicalEngine_evaluate(row) ==
    /\ Serving("topological")
    /\ \E c \in {Unwrap(evaluation)} :
         \E record \in {TopologicalRecord(c.nodes, c.root, c.outputs, row)} :
            /\ \A key \in DOMAIN record : record[key] # OutOfDomain
            /\ evaluation' = Some(PushRecord(c, row, record))
    /\ UNCHANGED notEvaluation

\* One iteration of "for row in rows" of LazyEngine::evaluate.
LazyEngine_evaluate(row) ==
    /\ Serving("lazy")
    /\ \E c \in {Unwrap(evaluation)} :
         \E record \in {LazyRecord(c.nodes, c.root, c.outputs, row)} :
            /\ \A key \in DOMAIN record : record[key] # OutOfDomain
            /\ evaluation' = Some(PushRecord(c, row, record))
    /\ UNCHANGED notEvaluation

\* The rows are used up: results is returned.
evaluate_return ==
    /\ IsSome(evaluation)
    /\ ~Unwrap(evaluation).returned
    /\ evaluation' = Some([Unwrap(evaluation) EXCEPT !.returned = TRUE])
    /\ UNCHANGED notEvaluation

EvaluationNext ==
    \/ \E row \in SamplerRows : TopologicalEngine_evaluate(row)
    \/ \E row \in SamplerRows : LazyEngine_evaluate(row)
    \/ evaluate_return

InitEvaluation ==
    EvaluationInit /\ EngineIdle /\ SamplerIdle /\ GraphIdle /\ YamlIdle /\ DagIdle
        /\ ArenaIdle

SpecEvaluate == InitEvaluation /\ [][EvaluationNext]_vars

---------------------------------------------------------------------------
(* ParallelEngine (src/src/engines.rs)                                     *)

\* rows.par_iter().map(...).collect(): one task per row, each with its own
\* values array, run in any interleaving; a task evaluates the nodes in
\* index order and then builds its record.  done lists the tasks in the
\* order in which they produced their records.

\* A collect that takes the records in the order they were produced.
CollectAsCompleted(tasks, done) ==
    [j \in DOMAIN done |-> Unwrap(tasks[done[j]].record)]

\* collect() on an indexed parallel iterator: item k goes to position k.
CollectInOrder(tasks, done) ==
    [k \in DOMAIN tasks |-> Unwrap(tasks[k].record)]

\* The rows a ParallelEngine is given: an empty row, a row without "b", and
\* two full rows that differ in every channel.
ParallelRows ==
    {<<>>,
     [name \in {"a"} |-> One],
     [name \in ChannelNames |-> IF name = "a" THEN One ELSE 2 * One],
     [name \in ChannelNames |-> IF name = "a" THEN 2 * One ELSE One]}

\* The row lists a ParallelEngine is given.
RowLists == UNION {[1..n -> ParallelRows] : n \in 0..MaxRows}

ParallelInit ==
    evaluation \in
        UNION {{Some([name |-> "parallel", nodes |-> arena.nodes, root |-> arena.root,
                      outputs |-> outs, rows |-> rows,
                      tasks |-> [k \in DOMAIN rows |->
                                    [values |-> Fill(VecLen(arena.nodes), 0), i |-> 0,
                                     record |-> None]],
                      done |-> <<>>, results |-> <<>>, returned |-> FALSE]) :
                   rows \in RowLists, outs \in EvaluatedOutputs(arena)} :
               arena \in EvaluatedArenas}

\* values[i] = node.eval_arena(&values, row) in the task of row k.
ParallelEngine_eval(k) ==
    /\ IsSome(evaluation)
    /\ k \in DOMAIN Unwrap(evaluation).tasks
    /\ LET c == Unwrap(evaluation)
           t == c.tasks[k]
       IN  /\ t.i < VecLen(c.nodes)
           /\ \E v \in {eval_arena(c.nodes[t.i], t.values, c.rows[k])} :
                 /\ v # OutOfDomain
                 /\ evaluation' = Some([c EXCEPT !.tasks[k].values[t.i] = v,
                                                  !.tasks[k].i = t.i + 1])
    /\ UNCHANGED notEvaluation

\* The record of the task of row k, once its nodes are evaluated.
ParallelEngine_record(k) ==
    /\ IsSome(evaluation)
    /\ k \in DOMAIN Unwrap(evaluation).tasks
    /\ LET c == Unwrap(evaluation)
           t == c.tasks[k]
       IN  /\ t.i = VecLen(c.nodes)
           /\ t.record = None
           /\ evaluation' = Some([c EXCEPT
                  !.tasks[k].record =
                      Some(InsertOutputs([key \in {"trigger"} |-> t.values[c.root]],
                                         c.outputs,
                                         [j \in DOMAIN c.outputs |-> t.values[c.outputs[j]]],
                                         1)),
                  !.done = Append(@, k)])
    /\ UNCHANGED notEvaluation

\* Every task has its record: collect() returns the records.
ParallelEngine_collect ==
    /\ IsSome(evaluation)
    /\ LET c == Unwrap(evaluation)
       IN  /\ ~c.returned
           /\ \A k \in DOMAIN c.tasks : IsSome(c.tasks[k].record)
           /\ evaluation' = Some([c EXCEPT !.results = CollectInOrder(c.tasks, c.done),
                                           !.returned = TRUE])
    /\ UNCHANGED notEvaluation

ParallelNext ==
    \/ \E k \in 1..MaxRows : ParallelEngine_eval(k)
    \/ \E k \in 1..MaxRows : ParallelEngine_record(k)
    \/ ParallelEngine_collect

InitParallel ==
    ParallelInit /\ EngineIdle /\ SamplerIdle /\ GraphIdle /\ YamlIdle /\ DagIdle
        /\ ArenaIdle

SpecParallel == InitParallel /\ [][ParallelNext]_vars

---------------------------------------------------------------------------
(* Graph builder and freeze (src/src/lib.rs, src/src/lib_v2.rs)            *)

\* The node objects of the builder.  An object's id is the counter value k
\* it was made at, standing for the string "n{k}"; a child is held by the
\* id of the child object.
InputObj(name) == [type |-> "Input", name |-> name]
ConstObj(value) == [type |-> "Const", value |-> value]
AddObj(children) == [type |-> "Add", children |-> children]
MulObj(children) == [type |-> "Mul", children |-> children]
DivObj(left, right) == [type |-> "Div", left |-> left, right |-> right]

\* Graph::new
GraphNew == [counter |-> 0, registry |-> <<>>]

\* let id = format!("n{}", self.counter); self.counter += 1;
\* self.registry.insert(id, py_node)
Register(g, obj) ==
    [counter |-> g.counter + 1,
     registry |-> [id \in DOMAIN g.registry \cup {g.counter} |->
                      IF id = g.counter THEN obj ELSE g.registry[id]]]

\* The objects a walk pushes for an object, in the order it pushes them.
Pushed(obj) ==
    CASE obj.type \in {"Add", "Mul"} -> obj.children
      [] obj.type = "Div" -> <<obj.left, obj.right>>
      [] OTHER -> <<>>

Contains(seq, x) == \E i \in DOMAIN seq : seq[i] = x

\* A discovery that does not look whether it has seen an object.
RECURSIVE DiscoverAgain(_, _, _)
DiscoverAgain(registry, stack, seen) ==
    IF stack = <<>> THEN seen
    ELSE LET id == stack[Len(stack)]
             rest == SubSeq(stack, 1, Len(stack) - 1)
         IN  DiscoverAgain(registry, rest \o Pushed(registry[id]), Append(seen, id))

\* "Discover reachable nodes": the loop over the stack, giving seen.
RECURSIVE Discover(_, _, _)
Discover(registry, stack, seen) ==
    IF stack = <<>> THEN seen
    ELSE LET id == stack[Len(stack)]
             rest == SubSeq(stack, 1, Len(stack) - 1)
         IN  IF Contains(seen, id) THEN Discover(registry, rest, seen)
             ELSE Discover(registry, rest \o Pushed(registry[id]), Append(seen, id))

\* seen.reverse()
Reverse(seq) == [i \in 1..Len(seq) |-> seq[Len(seq) + 1 - i]]

\* id2idx.insert(sid.clone(), i) for (i, sid) in seen.iter().enumerate()
Id2Idx(seen) ==
    [sid \in {seen[i] : i \in DOMAIN seen} |->
        (CHOOSE i \in DOMAIN seen : seen[i] = sid) - 1]

MapIds(ids, id2idx) == [k \in DOMAIN ids |-> id2idx[ids[k]]]

\* The mapping written for one object: its tag and its fields, every child
\* by its index.  (The "id" entry is the node's position in the sequence.)
Mapping(obj, id2idx) ==
    CASE obj.type = "Input" -> InputNode(obj.name)
      [] obj.type = "Const" -> ConstNode(obj.value)
      [] obj.type = "Add" -> AddNode(MapIds(obj.children, id2idx))
      [] obj.type = "Mul" -> MulNode(MapIds(obj.children, id2idx))
      [] obj.type = "Div" -> DivNode(id2idx[obj.left], id2idx[obj.right])

\* freeze_graph of lib.rs: the document it returns, as ArenaGraph::from_yaml
\* reads it.
freeze_graph(g, root) ==
    LET seen == Reverse(Discover(g.registry, <<root>>, <<>>))
        id2idx == Id2Idx(seen)
    IN  [nodes |-> Vec([i \in DOMAIN seen |-> Mapping(g.registry[seen[i]], id2idx)]),
         root |-> id2idx[root]]

\* An insert that stores the node it is given under an id seen before.
ArenaInsertReplace(a, node, original_id) ==
    IF IsSome(original_id) /\ Unwrap(original_id) \in DOMAIN a.shared_refs
    THEN [arena |-> [a EXCEPT !.nodes[a.shared_refs[Unwrap(original_id)] + 1] = node],
          node_id |-> a.shared_refs[Unwrap(original_id)]]
    ELSE [arena |-> [nodes |-> Append(a.nodes, node),
                     shared_refs |->
                        IF IsSome(original_id)
                        THEN [id \in DOMAIN a.shared_refs \cup {Unwrap(original_id)} |->
                                 IF id = Unwrap(original_id) THEN Len(a.nodes)
                                 ELSE a.shared_refs[id]]
                        ELSE a.shared_refs],
          node_id |-> Len(a.nodes)]

\* Arena::new and Arena::insert (src/src/arena.rs).
ArenaNew == [nodes |-> <<>>, shared_refs |-> <<>>]

ArenaInsert(arena, node, original_id) ==
    IF IsSome(original_id) /\ Unwrap(original_id) \in DOMAIN arena.shared_refs
    THEN [arena |-> arena, node_id |-> arena.shared_refs[Unwrap(original_id)]]
    ELSE LET node_id == Len(arena.nodes)
         IN  [arena |-> [nodes |-> Append(arena.nodes, node),
                         shared_refs |->
                            IF IsSome(original_id)
                            THEN [id \in DOMAIN arena.shared_refs \cup {Unwrap(original_id)} |->
                                     IF id = Unwrap(original_id) THEN node_id
                                     ELSE arena.shared_refs[id]]
                            ELSE arena.shared_refs],
              node_id |-> node_id]

\* Arena::get: self.nodes.get(id)
ArenaGet(a, id) == IF id < Len(a.nodes) THEN Some(a.nodes[id + 1]) ELSE None

\* The walk of Graph::freeze of lib_v2.rs: every object popped for the first
\* time is inserted into the arena under its id.
RECURSIVE Walk(_, _, _, _, _)
Walk(registry, stack, seen, arena, py_to_arena) ==
    IF stack = <<>> THEN [arena |-> arena, py_to_arena |-> py_to_arena]
    ELSE LET id == stack[Len(stack)]
             rest == SubSeq(stack, 1, Len(stack) - 1)
         IN  IF id \in seen THEN Walk(registry, rest, seen, arena, py_to_arena)
             ELSE LET ins == ArenaInsert(arena, registry[id], Some(id))
                  IN  Walk(registry, rest \o Pushed(registry[id]), seen \cup {id},
                           ins.arena,
                           [k \in DOMAIN py_to_arena \cup {id} |->
                               IF k = id THEN ins.node_id ELSE py_to_arena[k]])

\* Graph::freeze of lib_v2.rs: "Update node IDs and references".
freeze_v2(g, root) ==
    LET walked == Walk(g.registry, <<root>>, {}, ArenaNew, <<>>)
        nodes == walked.arena.nodes
    IN  [nodes |-> Vec([i \in DOMAIN nodes |-> Mapping(nodes[i], walked.py_to_arena)]),
         root |-> walked.py_to_arena[root]]

\* What the builder is given.
ConstValues == {2 * One}
Ids(g) == 0..(g.counter - 1)
ChildLists(g) == {<<x>> : x \in Ids(g)} \cup {<<x, y>> : x \in Ids(g), y \in Ids(g)}

GraphInit ==
    /\ graph = GraphNew
    /\ frozen = None

\* Graph::input, const_, add, mul and div: a new object is registered.
NewObject(obj) ==
    /\ graph.counter < MaxNodes
    /\ graph' = Register(graph, obj)
    /\ frozen' = None
    /\ UNCHANGED notGraph

Graph_input(name) == NewObject(InputObj(name))

Graph_const(value) == NewObject(ConstObj(value))

Graph_add(children) == NewObject(AddObj(children))

Graph_mul(children) == NewObject(MulObj(children))

Graph_div(left, right) == NewObject(DivObj(left, right))

\* Graph::freeze of lib.rs
Graph_freeze(root) ==
    /\ frozen' = Some([by |-> "lib", root |-> root, arena |-> freeze_graph(graph, root)])
    /\ UNCHANGED <<graph, notGraph>>

\* Graph::freeze of lib_v2.rs
Graph_freeze_v2(root) ==
    /\ frozen' = Some([by |-> "lib_v2", root |-> root, arena |-> freeze_v2(graph, root)])
    /\ UNCHANGED <<graph, notGraph>>

GraphNext ==
    \/ \E name \in ChannelNames : Graph_input(name)
    \/ \E value \in ConstValues : Graph_const(value)
    \/ \E children \in ChildLists(graph) : Graph_add(children)
    \/ \E children \in ChildLists(graph) : Graph_mul(children)
    \/ \E left \in Ids(graph), right \in Ids(graph) : Graph_div(left, right)
    \/ \E root \in Ids(graph) : Graph_freeze(root)
    \/ \E root \in Ids(graph) : Graph_freeze_v2(root)

InitGraph ==
    GraphInit /\ EngineIdle /\ SamplerIdle /\ YamlIdle /\ DagIdle /\ EvaluationIdle
        /\ ArenaIdle

SpecGraph == InitGraph /\ [][GraphNext]_vars

---------------------------------------------------------------------------
(* Arena (src/src/arena.rs)                                                *)

\* The nodes and original ids an Arena is given.
Payloads == {"p", "q"}
OriginalIds == {None, Some("n0"), Some("n1")}

\* An Arena is asked for the ids up to MaxArena.
MaxArena == 3

ArenaInit ==
    /\ the_arena = ArenaNew
    /\ handed = [last |-> None, first |-> <<>>]

\* What insert returned first for each original id, after a call.
FirstOf(first, original_id, node_id) ==
    IF IsSome(original_id) /\ Unwrap(original_id) \notin DOMAIN first
    THEN [id \in DOMAIN first \cup {Unwrap(original_id)} |->
             IF id = Unwrap(original_id) THEN node_id ELSE first[id]]
    ELSE first

\* Arena::insert
Arena_insert(node, original_id) ==
    /\ Len(the_arena.nodes) < MaxArena
    /\ \E ins \in {ArenaInsert(the_arena, node, original_id)} :
          /\ the_arena' = ins.arena
          /\ handed' = [last |-> Some([call |-> "insert", node |-> node,
                                       original_id |-> original_id,
                                       returned |-> ins.node_id]),
                        first |-> FirstOf(handed.first, original_id, ins.node_id)]
    /\ UNCHANGED notArena

\* Arena::get
Arena_get(id) ==
    /\ handed' = [handed EXCEPT !.last = Some([call |-> "get", id |-> id,
                                               returned |-> ArenaGet(the_arena, id)])]
    /\ UNCHANGED <<the_arena, notArena>>

ArenaNext ==
    \/ \E node \in Payloads, original_id \in OriginalIds : Arena_insert(node, original_id)
    \/ \E id \in 0..MaxArena : Arena_get(id)

InitArena ==
    ArenaInit /\ EngineIdle /\ SamplerIdle /\ GraphIdle /\ YamlIdle /\ DagIdle
        /\ EvaluationIdle

SpecArena == InitArena /\ [][ArenaNext]_vars

---------------------------------------------------------------------------
(* engine::from_yaml (src/src/engine.rs)                                   *)

\* A node of the document: its id, its type and its params.
YamlNode(id, node_type, params) == [id |-> id, node_type |-> node_type, params |-> params]

Ok(x) == [ok |-> TRUE, value |-> x]
Err(e) == [ok |-> FALSE, error |-> e]

\* An id_map that counts the nodes from 1.
IdMapFromOne(nodes) ==
    [id \in {nodes[i].id : i \in DOMAIN nodes} |->
        CHOOSE i \in DOMAIN nodes :
            nodes[i].id = id /\ \A j \in DOMAIN nodes : nodes[j].id = id => j <= i]

\* id_map.insert(node.id.clone(), i) in declaration order: a later node
\* takes an id over from an earlier one.
IdMap(nodes) ==
    [id \in {nodes[i].id : i \in DOMAIN nodes} |->
        (CHOOSE i \in DOMAIN nodes :
            nodes[i].id = id /\ \A j \in DOMAIN nodes : nodes[j].id = id => j <= i) - 1]

\* The two inputs of an Add, Multiply or Comparison node, by index.
TwoInputs(params, id_map) ==
    IF "inputs" \notin DOMAIN params THEN Err("InvalidInput")
    ELSE IF Len(params.inputs) # 2 THEN Err("InvalidInput")
    ELSE IF params.inputs[1] \notin DOMAIN id_map THEN Err("NodeNotFound")
    ELSE IF params.inputs[2] \notin DOMAIN id_map THEN Err("NodeNotFound")
    ELSE Ok(<<id_map[params.inputs[1]], id_map[params.inputs[2]]>>)

ComparisonOps == {"GreaterThan", "LessThan", "Equal"}

\* "Convert YAML nodes to NodeOp enum", one node.
ConvertNode(node, id_map) ==
    CASE node.node_type = "Constant" ->
            IF "value" \in DOMAIN node.params THEN Ok(Constant(node.params.value))
            ELSE Err("InvalidInput")
      [] node.node_type = "Input" ->
            IF "input_index" \in DOMAIN node.params THEN Ok(Input(node.params.input_index))
            ELSE Err("InvalidInput")
      [] node.node_type = "Add" ->
            LET ab == TwoInputs(node.params, id_map)
            IN  IF ab.ok THEN Ok(Add(ab.value[1], ab.value[2])) ELSE ab
      [] node.node_type = "Multiply" ->
            LET ab == TwoInputs(node.params, id_map)
            IN  IF ab.ok THEN Ok(Multiply(ab.value[1], ab.value[2])) ELSE ab
      [] node.node_type = "Comparison" ->
            LET ab == TwoInputs(node.params, id_map)
            IN  IF ~ab.ok THEN ab
                ELSE IF "op" \notin DOMAIN node.params THEN Err("InvalidInput")
                ELSE IF node.params.op \notin ComparisonOps THEN Err("InvalidInput")
                ELSE Ok(Comparison(ab.value[1], ab.value[2], node.params.op))
      [] OTHER -> Err("InvalidInput")

\* The loop over the nodes: the first error ends it.
RECURSIVE ConvertNodes(_, _, _, _)
ConvertNodes(nodes, id_map, k, acc) ==
    IF k > Len(nodes) THEN Ok(acc)
    ELSE LET op == ConvertNode(nodes[k], id_map)
         IN  IF op.ok THEN ConvertNodes(nodes, id_map, k + 1, Append(acc, op.value))
             ELSE op

\* "Set trigger and outputs if specified"
WithTrigger(e, trigger, id_map) ==
    IF ~IsSome(trigger) THEN Ok(e)
    ELSE IF Unwrap(trigger) \notin DOMAIN id_map THEN Err("NodeNotFound")
    ELSE Ok([e EXCEPT !.trigger_node = Some(id_map[Unwrap(trigger)])])

\* Outputs that leave out the ids no node declares.
WithOutputsDeclared(e, outputs, id_map) ==
    IF ~IsSome(outputs) THEN Ok(e)
    ELSE LET declared == SelectSeq(Unwrap(outputs), LAMBDA id : id \in DOMAIN id_map)
         IN  Ok([e EXCEPT !.output_nodes = [k \in DOMAIN declared |-> id_map[declared[k]]]])

WithOutputs(e, outputs, id_map) ==
    IF ~IsSome(outputs) THEN Ok(e)
    ELSE IF \E k \in DOMAIN Unwrap(outputs) : Unwrap(outputs)[k] \notin DOMAIN id_map
         THEN Err("NodeNotFound")
    ELSE Ok([e EXCEPT !.output_nodes =
                [k \in DOMAIN Unwrap(outputs) |-> id_map[Unwrap(outputs)[k]]]])

\* from_yaml on a parsed document.
FromYaml(dag_yaml) ==
    LET id_map == IdMap(dag_yaml.nodes)
        nodes == ConvertNodes(dag_yaml.nodes, id_map, 1, <<>>)
    IN  IF ~nodes.ok THEN nodes
        ELSE LET triggered == WithTrigger(EngineNew(Vec(nodes.value)), dag_yaml.trigger, id_map)
             IN  IF ~triggered.ok THEN triggered
                 ELSE WithOutputs(triggered.value, dag_yaml.outputs, id_map)

\* The documents from_yaml is given.  "z" is an id no node declares, "Pow"
\* a type and "Between" a comparison from_yaml does not know; a node can
\* come without any params.
YamlIds == {"x", "y"}
YamlRefs == YamlIds \cup {"z"}
YamlInputs == {<<"x", "x">>, <<"x", "y">>, <<"y", "x">>, <<"x", "z">>, <<"z", "x">>, <<"x">>}

YamlNodes ==
    {YamlNode(id, "Constant", [value |-> One]) : id \in YamlIds}
    \cup {YamlNode(id, "Input", [input_index |-> 0]) : id \in YamlIds}
    \cup {YamlNode(id, "Add", [inputs |-> ins]) : id \in YamlIds, ins \in YamlInputs}
    \cup {YamlNode("y", type, [inputs |-> ins]) :
             type \in {"Multiply", "Comparison"}, ins \in {<<"x", "y">>, <<"x">>}}
    \cup {YamlNode("y", "Comparison", [inputs |-> ins, op |-> op]) :
             ins \in {<<"x", "y">>, <<"x", "z">>}, op \in {"GreaterThan", "Between"}}
    \cup {YamlNode("y", "Pow", [inputs |-> <<"x", "x">>])}
    \cup {YamlNode("x", type, << >>) :
             type \in {"Constant", "Input", "Add", "Multiply", "Comparison"}}

YamlNodeLists == UNION {[1..n -> YamlNodes] : n \in 0..MaxYamlNodes}

Documents ==
    {[nodes |-> nodes, trigger |-> trigger, outputs |-> outputs] :
        nodes \in YamlNodeLists,
        trigger \in {None} \cup {Some(id) : id \in YamlRefs},
        outputs \in {None, Some(<<"y", "x">>)}}

YamlInit ==
    /\ document \in Documents
    /\ loaded = None

\* from_yaml
from_yaml ==
    /\ loaded = None
    /\ loaded' = Some(FromYaml(document))
    /\ UNCHANGED <<document, notYaml>>

YamlNext == from_yaml

InitYaml ==
    YamlInit /\ EngineIdle /\ SamplerIdle /\ GraphIdle /\ DagIdle /\ EvaluationIdle
        /\ ArenaIdle

SpecYaml == InitYaml /\ [][YamlNext]_vars

---------------------------------------------------------------------------
(* DagBuilder and Dag (src/src/dag.rs)                                     *)

Connection(source_node, source_output) ==
    [source_node |-> source_node, source_output |-> source_output]

\* A DagNode as add_node stores it: the node the registry made and no
\* inputs (the id is the key it is stored under).
DagNode(node) == [node |-> node, inputs |-> << >>]

\* The Values of src/src/node.rs the model uses.
FloatValue(x) == [kind |-> "Float", f |-> x]
StringValue(x) == [kind |-> "String", s |-> x]

\* Value::as_f64
as_f64(v) == IF v.kind = "Float" THEN Some(v.f) ELSE None

\* HashMap::insert
Insert(map, key, value) ==
    [k \in DOMAIN map \cup {key} |-> IF k = key THEN value ELSE map[k]]

\* DagBuilder::new
DagBuilderNew == [nodes |-> << >>]

\* The types NodeRegistry::create knows (src/src/node.rs:88-110).
RegisteredTypes == {"Add", "Multiply", "Constant"}

\* NodeRegistry::create: the factory of the type, applied to the params.
create(node_type, params) ==
    IF node_type \notin RegisteredTypes THEN Err("NodeNotFound")
    ELSE IF node_type = "Constant"
         THEN IF "value" \in DOMAIN params
              THEN Ok([type |-> "Constant", value |-> params["value"]])
              ELSE Err("InvalidInput")
         ELSE Ok([type |-> node_type])

\* inputs.get(name).and_then(|v| v.as_f64())
NumberInput(inputs, name) ==
    IF name \in DOMAIN inputs THEN as_f64(inputs[name]) ELSE None

\* An Add that reads its input "a" twice.
AddNode_compute_a(inputs) ==
    LET a == NumberInput(inputs, "a")
    IN  IF a = None THEN Err("InvalidInput")
        ELSE Ok([name \in {"result"} |-> FloatValue(FAdd(Unwrap(a), Unwrap(a)))])

\* AddNode::compute
AddNode_compute(inputs) ==
    LET a == NumberInput(inputs, "a")
        b == NumberInput(inputs, "b")
    IN  IF a = None \/ b = None THEN Err("InvalidInput")
        ELSE Ok([name \in {"result"} |-> FloatValue(FAdd(Unwrap(a), Unwrap(b)))])

\* MultiplyNode::compute
MultiplyNode_compute(inputs) ==
    LET a == NumberInput(inputs, "a")
        b == NumberInput(inputs, "b")
    IN  IF a = None \/ b = None THEN Err("InvalidInput")
        ELSE Ok([name \in {"result"} |-> FloatValue(FMul(Unwrap(a), Unwrap(b)))])

\* ConstantNode::compute
ConstantNode_compute(node, inputs) == Ok([name \in {"value"} |-> node.value])

\* node.node.compute(inputs)
compute(node, inputs) ==
    CASE node.type = "Add" -> AddNode_compute(inputs)
      [] node.type = "Multiply" -> MultiplyNode_compute(inputs)
      [] node.type = "Constant" -> ConstantNode_compute(node, inputs)

\* in_degree after "Build graph and calculate in-degrees": one per
\* connection of the node.
InDegree(nodes) == [n \in DOMAIN nodes |-> Cardinality(DOMAIN nodes[n].inputs)]

\* graph after "Build graph and calculate in-degrees": for each node, the
\* set of the nodes with a connection from it.
Neighbors(nodes) ==
    [n \in DOMAIN nodes |->
        {m \in DOMAIN nodes : \E i \in DOMAIN nodes[m].inputs :
                                 nodes[m].inputs[i].source_node = n}]

\* A connection names a source that is no node: graph.get_mut fails.
SourceMissing(nodes) ==
    \E m \in DOMAIN nodes : \E i \in DOMAIN nodes[m].inputs :
        nodes[m].inputs[i].source_node \notin DOMAIN nodes

\* The orders an iteration over a HashSet or a HashMap can take.
Orders(S) == {seq \in [1..Cardinality(S) -> S] : \A x \in S : \E i \in DOMAIN seq : seq[i] = x}

\* "for neighbor in neighbors": degree -= 1, and push_back at 0.
RECURSIVE Relax(_, _, _, _)
Relax(neighbors, k, in_degree, queue) ==
    IF k > Len(neighbors) THEN [in_degree |-> in_degree, queue |-> queue]
    ELSE LET degree == in_degree[neighbors[k]] - 1
         IN  Relax(neighbors, k + 1,
                   [in_degree EXCEPT ![neighbors[k]] = degree],
                   IF degree = 0 THEN Append(queue, neighbors[k]) ELSE queue)

\* "while let Some(node_id) = queue.pop_front()": the results the loop can
\* end with.
RECURSIVE Kahn(_, _, _, _)
Kahn(neighbors, in_degree, queue, sorted) ==
    IF queue = <<>> THEN {sorted}
    ELSE UNION {LET relaxed == Relax(order, 1, in_degree, Tail(queue))
                IN  Kahn(neighbors, relaxed.in_degree, relaxed.queue,
                         Append(sorted, Head(queue)))
                  : order \in Orders(neighbors[Head(queue)])}

\* A topological_sort that takes whatever the loop ends with.
FinishUnchecked(sorted, nodes) == Ok(sorted)

\* if result.len() != nodes.len() { Err(CircularDependency) } else { Ok(result) }
Finish(sorted, nodes) ==
    IF Len(sorted) # Cardinality(DOMAIN nodes) THEN Err("CircularDependency")
    ELSE Ok(sorted)

\* A topological_sort that does not look for the sources of the
\* connections.
topological_sort_known(nodes) ==
    LET in_degree == InDegree(nodes)
        zero == {n \in DOMAIN nodes : in_degree[n] = 0}
    IN  {Finish(sorted, nodes) :
            sorted \in UNION {Kahn(Neighbors(nodes), in_degree, queue, <<>>) :
                                 queue \in Orders(zero)}}

\* Dag::topological_sort: what it can return.
topological_sort(nodes) ==
    IF SourceMissing(nodes) THEN {Err("NodeNotFound")}
    ELSE LET in_degree == InDegree(nodes)
             zero == {n \in DOMAIN nodes : in_degree[n] = 0}
         IN  {Finish(sorted, nodes) :
                 sorted \in UNION {Kahn(Neighbors(nodes), in_degree, queue, <<>>) :
                                      queue \in Orders(zero)}}

\* Dag::new
DagNew(nodes) ==
    {IF order.ok THEN Ok([nodes |-> nodes, topological_order |-> order.value]) ELSE order :
        order \in topological_sort(nodes)}

\* The errors "Collect inputs" can stop with: a connection whose source has
\* no outputs yet, or whose source_output is none of the source's outputs.
\* Which one is met first depends on the iteration order of node.inputs.
CollectErrors(node, node_outputs) ==
    {IF node.inputs[i].source_node \notin DOMAIN node_outputs
     THEN "NodeNotFound" ELSE "InvalidInput" :
        i \in {j \in DOMAIN node.inputs :
                  \/ node.inputs[j].source_node \notin DOMAIN node_outputs
                  \/ node.inputs[j].source_output
                        \notin DOMAIN node_outputs[node.inputs[j].source_node]}}

\* The inputs "Collect inputs" ends with.
CollectInputs(node, node_outputs) ==
    [i \in DOMAIN node.inputs |->
        node_outputs[node.inputs[i].source_node][node.inputs[i].source_output]]

\* Dag::execute from the k-th node of topological_order on: what it can
\* return, together with the ids of the nodes it has computed, in order.
RECURSIVE ExecuteFrom(_, _, _, _)
ExecuteFrom(d, k, node_outputs, computed) ==
    IF k > Len(d.topological_order)
    THEN {[returned |-> Ok(node_outputs), computed |-> computed]}
    ELSE LET node_id == d.topological_order[k]
         IN  IF node_id \notin DOMAIN d.nodes
             THEN {[returned |-> Err("NodeNotFound"), computed |-> computed]}
             ELSE LET node == d.nodes[node_id]
                      errors == CollectErrors(node, node_outputs)
                      outputs == compute(node.node, CollectInputs(node, node_outputs))
                  IN  IF errors # {}
                      THEN {[returned |-> Err(e), computed |-> computed] : e \in errors}
                      ELSE IF ~outputs.ok
                      THEN {[returned |-> outputs, computed |-> Append(computed, node_id)]}
                      ELSE ExecuteFrom(d, k + 1,
                                       Insert(node_outputs, node_id, outputs.value),
                                       Append(computed, node_id))

\* Dag::execute
Execute(d) == ExecuteFrom(d, 1, << >>, <<>>)

\* Dag::get_node_output, from what execute returned.
GetNodeOutput(results, node_id, output_name) ==
    IF ~results.ok THEN results
    ELSE IF node_id \notin DOMAIN results.value THEN Err("NodeNotFound")
    ELSE IF output_name \notin DOMAIN results.value[node_id] THEN Err("InvalidInput")
    ELSE Ok(results.value[node_id][output_name])

\* What the builder is given.
DagIds == {"a", "b", "c"}
DagTypes == {"Add", "Multiply", "Pow"}
DagInputNames == {"a", "b"}

DagInit ==
    /\ builder = DagBuilderNew
    /\ reply = None
    /\ dag = None
    /\ outcome = None

\* An add_node that stores the DagNode before it asks the registry: on a
\* failure a node without a node stays behind.
AddNodeEager(nodes, id, node_type, params) ==
    LET node == create(node_type, params)
    IN  IF node.ok THEN Insert(nodes, id, DagNode(node.value))
        ELSE Insert(nodes, id, DagNode([type |-> node_type]))

\* An add_node that keeps the inputs of a node it replaces.
AddNodeKeepingInputs(nodes, id, node_type, params) ==
    LET node == create(node_type, params)
    IN  IF ~node.ok THEN nodes
        ELSE IF id \in DOMAIN nodes
             THEN [nodes EXCEPT ![id].node = node.value]
             ELSE Insert(nodes, id, DagNode(node.value))

\* The nodes of the builder after add_node: "let node = create(..)?" leaves
\* before the insert when the registry refuses.
AddNode_nodes(nodes, id, node_type, params) ==
    LET node == create(node_type, params)
    IN  IF node.ok THEN Insert(nodes, id, DagNode(node.value)) ELSE nodes

\* The nodes of the builder after connect: "get_mut(to_node).ok_or_else(..)?"
\* leaves before the insert when to_node is no node.
Connect_nodes(nodes, from_node, from_output, to_node, to_input) ==
    IF to_node \notin DOMAIN nodes THEN nodes
    ELSE [nodes EXCEPT ![to_node].inputs =
             Insert(@, to_input, Connection(from_node, from_output))]

\* DagBuilder::add_node; it returns the builder, or the error of
\* NodeRegistry::create.
add_node(id, node_type, params) ==
    /\ dag = None
    /\ builder' = [nodes |-> AddNode_nodes(builder.nodes, id, node_type, params)]
    /\ reply' = Some([call |-> "add_node", node |-> id,
                      node_type |-> node_type, params |-> params,
                      replaced |-> IF id \in DOMAIN builder.nodes
                                   THEN Some(builder.nodes[id]) ELSE None,
                      returned |-> IF create(node_type, params).ok THEN Ok("self")
                                   ELSE create(node_type, params)])
    /\ UNCHANGED <<dag, outcome, notDag>>

\* DagBuilder::connect; it returns the builder, or NodeNotFound for a
\* to_node that is no node.
connect(from_node, from_output, to_node, to_input) ==
    /\ dag = None
    /\ builder' = [nodes |-> Connect_nodes(builder.nodes, from_node, from_output,
                                           to_node, to_input)]
    /\ reply' = Some([call |-> "connect", node |-> to_node,
                      returned |-> IF to_node \in DOMAIN builder.nodes THEN Ok("self")
                                   ELSE Err("NodeNotFound")])
    /\ UNCHANGED <<dag, outcome, notDag>>

\* DagBuilder::build, which takes the builder
build ==
    /\ dag = None
    /\ \E d \in DagNew(builder.nodes) : dag' = Some(d)
    /\ UNCHANGED <<builder, reply, outcome, notDag>>

\* Dag::execute on the Dag that build returned
execute ==
    /\ IsSome(dag) /\ Unwrap(dag).ok
    /\ \E r \in Execute(Unwrap(dag).value) :
          outcome' = Some([call |-> "execute", node_id |-> None, output_name |-> None,
                           returned |-> r.returned, computed |-> r.computed])
    /\ UNCHANGED <<builder, reply, dag, notDag>>

\* Dag::get_node_output on the Dag that build returned
get_node_output(node_id, output_name) ==
    /\ IsSome(dag) /\ Unwrap(dag).ok
    /\ \E r \in Execute(Unwrap(dag).value) :
          outcome' = Some([call |-> "get_node_output", node_id |-> Some(node_id),
                           output_name |-> Some(output_name),
                           returned |-> GetNodeOutput(r.returned, node_id, output_name),
                           computed |-> r.computed])
    /\ UNCHANGED <<builder, reply, dag, notDag>>

DagNext ==
    \/ \E id \in DagIds, node_type \in DagTypes : add_node(id, node_type, << >>)
    \/ \E from_node \in DagIds, to_node \in DagIds, to_input \in DagInputNames :
          connect(from_node, "result", to_node, to_input)
    \/ build
    \/ execute
    \/ \E node_id \in DagIds : get_node_output(node_id, "result")

InitDag ==
    DagInit /\ EngineIdle /\ SamplerIdle /\ GraphIdle /\ YamlIdle /\ EvaluationIdle
        /\ ArenaIdle

SpecDag == InitDag /\ [][DagNext]_vars

\* The nodes and connections of (x + y) * z (src/src/tests.rs:72-105), and
\* around them: a Constant that is no number, a Constant without a value, an
\* output name the source does not have, a connection that closes a cycle,
\* and a second connection from the same source.
ExprNodes ==
    {<<"x", "Constant", [name \in {"value"} |-> FloatValue(2 * One)]>>,
     <<"y", "Constant", [name \in {"value"} |-> FloatValue(3 * One)]>>,
     <<"z", "Constant", [name \in {"value"} |-> FloatValue(4 * One)]>>,
     <<"z", "Constant", [name \in {"value"} |-> StringValue("four")]>>,
     <<"z", "Constant", << >> >>,
     <<"add", "Add", << >> >>,
     <<"multiply", "Multiply", << >> >>,
     <<"power", "Pow", << >> >>}

ExprConnections ==
    {<<"x", "value", "add", "a">>,
     <<"y", "value", "add", "b">>,
     <<"add", "result", "multiply", "a">>,
     <<"z", "value", "multiply", "b">>,
     <<"x", "result", "add", "a">>,
     <<"multiply", "result", "add", "b">>,
     <<"x", "value", "add", "b">>}

ExprQueries == {<<"multiply", "result">>, <<"add", "result">>, <<"x", "value">>}

ExecuteNext ==
    \/ \E n \in ExprNodes : add_node(n[1], n[2], n[3])
    \/ \E c \in ExprConnections : connect(c[1], c[2], c[3], c[4])
    \/ build
    \/ execute
    \/ \E q \in ExprQueries : get_node_output(q[1], q[2])

SpecExecute == InitDag /\ [][ExecuteNext]_vars

---------------------------------------------------------------------------
(* Properties of the Engine                                                *)

\* A full from-scratch evaluation of the node list on a row: every Input
\* takes its row value and every other node is computed in index order.
FromScratch(nodes, row) ==
    ComputeAll(nodes,
               SetInputs(InputNodesFrom(nodes, 0), row, Fill(VecLen(nodes), 0), 1),
               0)

\* An evaluate_step call has been made.
Stepped == ~engine.first_run

\* C1: for a topologically ordered node list, after every evaluate_step the
\* stored value of every node is the value a from-scratch evaluation of
\* the graph on the current row gives.
C1_NoStaleValue ==
    (Stepped /\ Topological(engine.nodes))
        => engine.values = FromScratch(engine.nodes, input_values)

\* C4: the trigger values of the emitting steps contain no two consecutive
\* equal values: a step that emits does so with a trigger value other than
\* the one of the emission before it.
C4_NoRepeatedEmission ==
    [][(IsSome(result') /\ IsSome(last_trigger))
          => Unwrap(last_trigger') # Unwrap(last_trigger)]_vars

\* C5: a step emits if and only if nothing has been emitted yet or the
\* trigger node's value after the step differs from the trigger value at
\* the most recent emission.
C5_EmitsIffTriggerDiffers ==
    [][(~engine'.first_run /\ ~panicked' /\ IsSome(engine'.trigger_node))
          => (IsSome(result')
                <=> (last_trigger = None
                     \/ FNe(engine'.values[Unwrap(engine'.trigger_node)],
                            Unwrap(last_trigger))))]_vars

C7_SameRowTwice ==
    [][same_row'
          => /\ result' = None
             /\ engine'.values = engine.values
             /\ \A i \in DOMAIN engine'.changed : ~engine'.changed[i]]_vars

C7_Witness ==
    same_row /\ IsSome(engine.trigger_node) /\ IsSome(last_trigger)

\* C11: after every evaluate_step the stored value of each Input node is
\* the current row's value at the node's input_index.
C11_InputFidelity ==
    (Stepped /\ ~panicked)
        => \A k \in DOMAIN engine.input_nodes :
              engine.values[engine.input_nodes[k][1]] = input_values[engine.input_nodes[k][2]]

\* C12: no evaluate_step call panics, whatever the row: an Input node the
\* row has no value for reads 0.0.
C12_NoStepPanics == ~panicked

\* The trigger is a Comparison node testing a sum against a Constant.
SumOverConstant(e) ==
    /\ IsSome(e.trigger_node)
    /\ LET node == e.nodes[Unwrap(e.trigger_node)]
       IN  /\ node.op = "Comparison" /\ node.cmp = "GreaterThan"
           /\ e.nodes[node.a].op \in {"Add", "Sum"}
           /\ e.nodes[node.b].op = "Constant"

\* The comparison's result on a row.
ComparisonOn(e, row) == FromScratch(e.nodes, row)[Unwrap(e.trigger_node)]

\* C14: with a Comparison (sum > constant) as trigger, the first step emits
\* and a later step emits exactly if the comparison's result on its row is
\* not the result on the row before.
C14_EmitsOnFlip ==
    [][(SumOverConstant(engine) /\ ~engine'.first_run /\ ~panicked')
          => (IsSome(result')
                <=> (engine.first_run
                     \/ ComparisonOn(engine, input_values') # ComparisonOn(engine, input_values)))]_vars

\* C15: the vector an emitting evaluate_step returns has one entry per
\* declared output node, in declared order, each the value of that node on
\* the current row.
C15_OutputsOfCurrentRow ==
    (IsSome(result) /\ ~panicked)
        => Unwrap(result) =
              [k \in DOMAIN engine.output_nodes |->
                  FromScratch(engine.nodes, input_values)[engine.output_nodes[k]]]

\* The Constant nodes of an Engine.
Constants(e) == {i \in DOMAIN e.nodes : e.nodes[i].op = "Constant"}

\* C24: get_value on a Constant node returns the configured constant in
\* every state: before the first evaluate_step, after it and after every
\* later step.
C24_ConstantHolds ==
    \A i \in Constants(engine) : get_value(engine, i) = engine.nodes[i].value

\* The step is an evaluate_step call on an Engine that has completed its
\* first step: neither set_trigger nor set_outputs.
LaterStep ==
    /\ ~engine.first_run
    /\ engine'.trigger_node = engine.trigger_node
    /\ engine'.output_nodes = engine.output_nodes

\* C25: at the end of every evaluate_step after the first the changed flag
\* of every Constant is false; so a node that is flagged then has an input
\* other than a Constant that is flagged, and a step whose trigger is a
\* Constant returns None.
C25_ConstantsUnchanged ==
    [][LaterStep
          => /\ \A i \in Constants(engine') : ~engine'.changed[i]
             /\ \A i \in DOMAIN engine'.nodes :
                    (engine'.changed[i] /\ engine'.nodes[i].op # "Input")
                        => \E k \in DOMAIN InputsOf(engine'.nodes[i]) :
                              /\ InputsOf(engine'.nodes[i])[k] \notin Constants(engine')
                              /\ engine'.changed[InputsOf(engine'.nodes[i])[k]]
             /\ (IsSome(engine'.trigger_node)
                    /\ Unwrap(engine'.trigger_node) \in Constants(engine'))
                    => result' = None]_vars

\* A later step on an Engine whose trigger is a Constant: the Constant's
\* consumer was recomputed and is flagged, the Constant is not, and the
\* step returned None where the first step had emitted.
C25_Witness ==
    /\ Stepped /\ ~panicked
    /\ IsSome(engine.trigger_node)
    /\ Unwrap(engine.trigger_node) \in Constants(engine)
    /\ ~engine.changed[Unwrap(engine.trigger_node)]
    /\ \E i \in DOMAIN engine.nodes :
          /\ engine.changed[i]
          /\ \E k \in DOMAIN InputsOf(engine.nodes[i]) :
                InputsOf(engine.nodes[i])[k] \in Constants(engine)
    /\ IsSome(last_trigger) /\ result = None

\* C26: after every evaluate_step that completed, prev_values[i] equals
\* values[i] for every node i.
C26_PrevIsCurrent ==
    (Stepped /\ ~panicked) => engine.prev_values = engine.values

\* A later step that changed a value has completed.
C26_Witness ==
    /\ Stepped /\ ~panicked
    /\ \E i \in DOMAIN engine.changed : engine.changed[i]
    /\ \E i \in DOMAIN engine.changed : ~engine.changed[i]
    /\ engine.prev_values = engine.values

\* C27: an Engine without a designated trigger returns None from every
\* evaluate_step, the first included.
C27_NoTriggerNoRecord ==
    engine.trigger_node = None => result = None

\* Steps have been made with outputs declared and no trigger, the last
\* with nodes changed.
C27_Witness ==
    /\ Stepped /\ ~panicked
    /\ engine.trigger_node = None /\ engine.output_nodes # <<>>
    /\ \E i \in DOMAIN engine.changed : engine.changed[i]
    /\ result = None

\* C31: a node whose changed flag is false at the end of an evaluate_step
\* after the first holds exactly the value it held at the end of the step
\* before: a recomputed value within EPSILON of the old one is not kept.
C31_UnflaggedUnchanged ==
    [][(LaterStep /\ ~panicked')
          => \A i \in DOMAIN engine'.nodes :
                ~engine'.changed[i] => engine'.values[i] = engine.values[i]]_vars

\* C32: at the end of every evaluate_step after the first, changed[i] is
\* true exactly for the nodes whose stored value differs by more than
\* EPSILON from their value at the end of the step before; a flag of an
\* earlier step does not survive.
C32_FlagsOfThisStep ==
    [][(LaterStep /\ ~panicked')
          => \A i \in DOMAIN engine'.nodes :
                engine'.changed[i]
                    <=> FGt(FAbs(FSub(engine'.values[i], engine.values[i])), EPSILON)]_vars

\* A later step has flagged a computed node and left an Input unflagged,
\* on an Engine that had every flag up after its first step.
C32_Witness ==
    /\ Stepped /\ ~panicked
    /\ \E i \in DOMAIN engine.nodes :
          engine.changed[i] /\ engine.nodes[i].op \notin {"Input", "Constant"}
    /\ \E i \in DOMAIN engine.nodes :
          ~engine.changed[i] /\ engine.nodes[i].op = "Input"

---------------------------------------------------------------------------
(* Properties of the Sampler                                               *)

\* An Engine is driven or a Sampler is run: the two first steps of C6.
InitFirstStep == Init \/ InitSampler

NextFirstStep == (SamplerIdle /\ Next) \/ (EngineIdle /\ SamplerNext)

SpecFirstStep == InitFirstStep /\ [][NextFirstStep]_vars

\* C8: in a Sampler::run call the second of two consecutive equal rows adds
\* no record, and a record is added only with a trigger value other than
\* the one of the record before it.
C8_SamplerSameRowOnce ==
    [][/\ call'.same_row => ~call'.pushed
       /\ (call'.n_rows = call.n_rows + 1 /\ call'.pushed /\ IsSome(call.prev_trigger))
            => Unwrap(call'.prev_trigger) # Unwrap(call.prev_trigger)]_vars

\* The same row twice, the trigger being the NaN of a division by zero.
C8_Witness ==
    call.same_row /\ call.values[sampler.graph.root] = NaN

---------------------------------------------------------------------------
(* Properties of the Graph builder                                         *)

\* The child indices of an arena node.
ArenaChildren(node) ==
    CASE node.tag \in {"add", "mul"} -> {node.children[k] : k \in DOMAIN node.children}
      [] node.tag = "div" -> {node.left, node.right}
      [] OTHER -> {}

\* C2: in the arena freeze_graph emits, every node's child indices are
\* strictly smaller than the node's own index.
C2_FrozenTopological ==
    (IsSome(frozen) /\ Unwrap(frozen).by = "lib")
        => \A i \in DOMAIN Unwrap(frozen).arena.nodes :
              \A c \in ArenaChildren(Unwrap(frozen).arena.nodes[i]) : c < i

\* C10: the arena a freeze emits holds no two Add nodes that sum the same
\* children: two such objects of the graph become one node.
C10_Dedup ==
    IsSome(frozen)
        => \A i, j \in DOMAIN Unwrap(frozen).arena.nodes :
              LET ni == Unwrap(frozen).arena.nodes[i]
                  nj == Unwrap(frozen).arena.nodes[j]
              IN  (ni.tag = "add" /\ nj.tag = "add" /\ ni.children = nj.children)
                     => i = j

\* The objects reachable from the objects S through children, left and
\* right, along at most k references.
RECURSIVE ReachableFrom(_, _, _)
ReachableFrom(registry, S, k) ==
    IF k = 0 THEN S
    ELSE ReachableFrom(registry,
             S \cup UNION {{Pushed(registry[id])[j] : j \in DOMAIN Pushed(registry[id])} :
                              id \in S},
             k - 1)

\* The arena holds the objects R, the object id at index at[id], each with
\* its fields and its children by index.
HoldsExactly(a, registry, R, at) ==
    /\ DOMAIN a.nodes = {at[id] : id \in R}
    /\ \A id1, id2 \in R : at[id1] = at[id2] => id1 = id2
    /\ \A id \in R : a.nodes[at[id]] = Mapping(registry[id], at)

\* C37: the arena Graph.freeze emits holds every object reachable from the
\* root exactly once and no other object, and its root field is the index
\* of the root object.
C37_FrozenReachable ==
    (IsSome(frozen) /\ Unwrap(frozen).by = "lib")
        => LET a == Unwrap(frozen).arena
               R == ReachableFrom(graph.registry, {Unwrap(frozen).root}, MaxNodes)
           IN  /\ VecLen(a.nodes) = Cardinality(R)
               /\ \E at \in [R -> 0..(Cardinality(R) - 1)] :
                     /\ HoldsExactly(a, graph.registry, R, at)
                     /\ a.root = at[Unwrap(frozen).root]

\* A graph was frozen in which the root reaches an object along two paths
\* and does not reach some other object.
C37_Witness ==
    /\ IsSome(frozen) /\ Unwrap(frozen).by = "lib"
    /\ LET a == Unwrap(frozen).arena
       IN  /\ VecLen(a.nodes) >= 3
           /\ VecLen(a.nodes) < graph.counter
           /\ \E i, j \in DOMAIN a.nodes :
                 /\ i # j
                 /\ ArenaChildren(a.nodes[i]) \cap ArenaChildren(a.nodes[j]) # {}

---------------------------------------------------------------------------
(* Properties of from_yaml                                                 *)

\* C3: from_yaml succeeds only if every node's inputs are nodes declared
\* before it: in the Engine it returns, every input index is smaller than
\* the node's own index.
C3_LoadedTopological ==
    (IsSome(loaded) /\ Unwrap(loaded).ok) => Topological(Unwrap(loaded).value.nodes)

\* The params from_yaml requires of a node of a type, and the types whose
\* "inputs" name other nodes.
RequiredParams(node_type) ==
    CASE node_type = "Constant" -> {"value"}
      [] node_type = "Input" -> {"input_index"}
      [] node_type \in {"Add", "Multiply"} -> {"inputs"}
      [] node_type = "Comparison" -> {"inputs", "op"}
      [] OTHER -> {}

KnownTypes == {"Constant", "Input", "Add", "Multiply", "Comparison"}
BinaryTypes == {"Add", "Multiply", "Comparison"}
DeclaredIds(d) == {d.nodes[i].id : i \in DOMAIN d.nodes}

\* The defects of a document.
UnknownType(d) == \E i \in DOMAIN d.nodes : d.nodes[i].node_type \notin KnownTypes
MissingParam(d) ==
    \E i \in DOMAIN d.nodes :
        ~(RequiredParams(d.nodes[i].node_type) \subseteq DOMAIN d.nodes[i].params)
WrongArity(d) ==
    \E i \in DOMAIN d.nodes :
        /\ d.nodes[i].node_type \in BinaryTypes
        /\ "inputs" \in DOMAIN d.nodes[i].params
        /\ Len(d.nodes[i].params.inputs) # 2
UndeclaredInput(d) ==
    \E i \in DOMAIN d.nodes :
        /\ d.nodes[i].node_type \in BinaryTypes
        /\ "inputs" \in DOMAIN d.nodes[i].params
        /\ \E k \in DOMAIN d.nodes[i].params.inputs :
              d.nodes[i].params.inputs[k] \notin DeclaredIds(d)
UndeclaredTrigger(d) == IsSome(d.trigger) /\ Unwrap(d.trigger) \notin DeclaredIds(d)
UndeclaredOutput(d) ==
    IsSome(d.outputs)
        /\ \E k \in DOMAIN Unwrap(d.outputs) : Unwrap(d.outputs)[k] \notin DeclaredIds(d)

\* C20: from_yaml returns an error, and no Engine, for a document in which a
\* node has a type outside the registry, lacks a param its type requires,
\* has an inputs array of a length other than 2, or in which a node input,
\* the trigger or an output names an id that no node declares.
C20_DefectIsError ==
    (IsSome(loaded)
       /\ (UnknownType(document) \/ MissingParam(document) \/ WrongArity(document)
              \/ UndeclaredInput(document) \/ UndeclaredTrigger(document)
              \/ UndeclaredOutput(document)))
        => (~Unwrap(loaded).ok /\ "value" \notin DOMAIN Unwrap(loaded))

\* The only defect is in the last thing from_yaml looks at: an output that
\* names an undeclared id.
C20_Witness ==
    /\ IsSome(loaded)
    /\ UndeclaredOutput(document)
    /\ ~UnknownType(document) /\ ~MissingParam(document) /\ ~WrongArity(document)
    /\ ~UndeclaredInput(document) /\ ~UndeclaredTrigger(document)
    /\ IsSome(document.trigger)
    /\ Unwrap(loaded) = Err("NodeNotFound")

\* C28: in an Engine from_yaml returns, every index evaluate_step uses on
\* the arrays of the nodes is smaller than the number of nodes: the input
\* indices of every node, the trigger index and every output index.
C28_IndicesInBounds ==
    (IsSome(loaded) /\ Unwrap(loaded).ok)
        => LET e == Unwrap(loaded).value
               n == VecLen(e.nodes)
           IN  /\ \A i \in DOMAIN e.nodes :
                     \A k \in DOMAIN InputsOf(e.nodes[i]) :
                         InputsOf(e.nodes[i])[k] \in 0..(n - 1)
               /\ \A k \in DOMAIN e.input_nodes : e.input_nodes[k][1] \in 0..(n - 1)
               /\ IsSome(e.trigger_node) => Unwrap(e.trigger_node) \in 0..(n - 1)
               /\ \A k \in DOMAIN e.output_nodes : e.output_nodes[k] \in 0..(n - 1)
               /\ VecLen(e.values) = n /\ VecLen(e.prev_values) = n
               /\ VecLen(e.changed) = n

\* An Engine is returned with a trigger, outputs and a node that reads the
\* last node of the list.
C28_Witness ==
    /\ IsSome(loaded) /\ Unwrap(loaded).ok
    /\ LET e == Unwrap(loaded).value
       IN  /\ IsSome(e.trigger_node) /\ e.output_nodes # <<>>
           /\ \E i \in DOMAIN e.nodes :
                 \E k \in DOMAIN InputsOf(e.nodes[i]) :
                     InputsOf(e.nodes[i])[k] = VecLen(e.nodes) - 1

---------------------------------------------------------------------------
(* Properties of TopologicalEngine and LazyEngine                          *)

\* The value an output node has on a row.
OutputValue(c, row, node_id) ==
    EvalAll(c.nodes, row, Fill(VecLen(c.nodes), 0), 0)[node_id]

\* C29: the records of TopologicalEngine and LazyEngine name the outputs by
\* position: the keys of a record are "trigger" and "output0" to
\* "outputN-1" for N declared outputs, whatever the node ids are.
C29_KeysByPosition ==
    IsSome(evaluation)
        => LET c == Unwrap(evaluation)
           IN  \A r \in DOMAIN c.results :
                   DOMAIN c.results[r] =
                       {"trigger"} \cup {OutputKey(k - 1) : k \in DOMAIN c.outputs}

\* C30: an iteration adds a record only if it is the first row or the
\* trigger value differs from the trigger value of the record before; so
\* a row equal to the row before it adds no record.
C30_EmitsOnChange ==
    [][(IsSome(evaluation) /\ IsSome(evaluation')
          /\ Len(Unwrap(evaluation').rows) > Len(Unwrap(evaluation).rows)
          /\ Unwrap(evaluation).rows # <<>>)
          => LET before == Unwrap(evaluation)
                 after == Unwrap(evaluation')
             IN  /\ Len(after.results) > Len(before.results)
                    => /\ before.results # <<>>
                       /\ FNe(after.results[Len(after.results)].trigger,
                              before.results[Len(before.results)].trigger)
                 /\ after.rows[Len(after.rows)] = before.rows[Len(before.rows)]
                    => after.results = before.results]_vars

---------------------------------------------------------------------------
(* Properties of the DagBuilder                                            *)

\* The nodes a node has a connection from.
Sources(nodes, n) ==
    {nodes[n].inputs[i].source_node : i \in DOMAIN nodes[n].inputs} \cap DOMAIN nodes

\* The nodes that reach one of S along at most k connections.
RECURSIVE Upstream(_, _, _)
Upstream(nodes, S, k) ==
    IF k = 0 THEN S
    ELSE Upstream(nodes, S \cup UNION {Sources(nodes, n) : n \in S}, k - 1)

\* The connections contain a cycle: a node reaches itself.
HasCycle(nodes) ==
    \E n \in DOMAIN nodes :
        n \in Upstream(nodes, Sources(nodes, n), Cardinality(DOMAIN nodes))

\* C9: whenever the connections contain a cycle, a node connected to itself
\* included, DagBuilder::build returns an error: no Dag with a cycle is
\* produced.
C9_CycleIsError ==
    (IsSome(dag) /\ HasCycle(builder.nodes)) => ~Unwrap(dag).ok

\* A cycle and no unknown source: build has returned CircularDependency.
C9_Witness ==
    /\ HasCycle(builder.nodes)
    /\ ~SourceMissing(builder.nodes)
    /\ dag = Some(Err("CircularDependency"))

\* C33: build succeeds for every acyclic set of connections between nodes
\* that exist, also when one node feeds two inputs of the same consumer;
\* CircularDependency is returned only for connections that contain a
\* cycle.
C33_AcyclicBuilds ==
    (IsSome(dag) /\ ~SourceMissing(builder.nodes) /\ ~HasCycle(builder.nodes))
        => Unwrap(dag).ok

\* Some connection of the builder names a source that was never added.
DanglingSource ==
    \E n \in DOMAIN builder.nodes : \E i \in DOMAIN builder.nodes[n].inputs :
        builder.nodes[n].inputs[i].source_node \notin DOMAIN builder.nodes

\* The step is an add_node or a connect call, described by reply'.
BuilderCall == dag' = dag /\ outcome' = outcome /\ IsSome(reply')

\* C39: add_node with an id that already exists replaces the stored node
\* and leaves that node without inputs; every other node, with its
\* connections that name the id as their source, is as it was.
C39_ReAddClearsInputs ==
    [][(BuilderCall /\ Unwrap(reply').call = "add_node"
           /\ Unwrap(reply').returned.ok
           /\ Unwrap(reply').node \in DOMAIN builder.nodes)
          => LET added == Unwrap(reply')
                 id == added.node
             IN  /\ DOMAIN builder'.nodes = DOMAIN builder.nodes
                 /\ builder'.nodes[id].node =
                        create(added.node_type, added.params).value
                 /\ builder'.nodes[id].inputs = << >>
                 /\ \A n \in DOMAIN builder.nodes \ {id} :
                        builder'.nodes[n] = builder.nodes[n]]_vars

\* add_node has replaced a node of another type that had an input, and
\* another node still names the id as the source of one of its inputs.
C39_Witness ==
    /\ IsSome(reply) /\ Unwrap(reply).call = "add_node"
    /\ Unwrap(reply).returned.ok
    /\ IsSome(Unwrap(reply).replaced)
    /\ Unwrap(Unwrap(reply).replaced).inputs # << >>
    /\ Unwrap(Unwrap(reply).replaced).node.type # Unwrap(reply).node_type
    /\ \E n \in DOMAIN builder.nodes \ {Unwrap(reply).node} :
           \E i \in DOMAIN builder.nodes[n].inputs :
               builder.nodes[n].inputs[i].source_node = Unwrap(reply).node

\* C21: build returns the not-found error whenever a connection names a
\* source node that was never added, so no Dag has a dangling source; and
\* connect returns an error when its destination node was never added.
C21_UnknownReference ==
    /\ [](IsSome(dag) /\ DanglingSource => dag = Some(Err("NodeNotFound")))
    /\ [][(BuilderCall /\ Unwrap(reply').call = "connect"
              /\ Unwrap(reply').node \notin DOMAIN builder.nodes)
             => Unwrap(reply').returned = Err("NodeNotFound")]_vars

\* A connect to a node that was never added has failed, and build has
\* refused a builder with a connection from a node that was never added.
C21_Witness ==
    /\ DanglingSource
    /\ dag = Some(Err("NodeNotFound"))
    /\ IsSome(reply) /\ Unwrap(reply).call = "connect"
    /\ ~Unwrap(reply).returned.ok

\* C22: an add_node or connect call that returns an error leaves the
\* builder's nodes and connections exactly as they were.
C22_Transactional ==
    [][(BuilderCall /\ ~Unwrap(reply').returned.ok) => builder' = builder]_vars

\* add_node has refused a Constant without a value, on a builder that holds
\* nodes and a connection.
C22_Witness ==
    /\ IsSome(reply) /\ Unwrap(reply).call = "add_node"
    /\ Unwrap(reply).returned = Err("InvalidInput")
    /\ dag = None
    /\ Cardinality(DOMAIN builder.nodes) >= 2
    /\ \E n \in DOMAIN builder.nodes : DOMAIN builder.nodes[n].inputs # {}

---------------------------------------------------------------------------
(* Properties of the Sampler's records and sweep                           *)

\* The record the last row added to the results.
LastRecord == call.results[Len(call.results)]

DivTrigger == sampler.graph.nodes[sampler.graph.root].tag = "div"
Dividend(c) == c.values[sampler.graph.nodes[sampler.graph.root].left]
Divisor(c) == c.values[sampler.graph.nodes[sampler.graph.root].right]

\* The last row of the call had a zero divisor.
ZeroDivisorRow(c) == DivTrigger /\ c.n_rows > 0 /\ FEq(Divisor(c), 0)

\* C16: with a division as trigger, a row whose divisor is 0 yields NaN as
\* the trigger value and as the value of an output that is the division,
\* and the row after it, if its divisor is not 0, yields the finite quotient
\* and is emitted.
C16_DivideByZero ==
    /\ [](ZeroDivisorRow(call)
            => /\ call.values[sampler.graph.root] = NaN
               /\ call.pushed
               /\ LastRecord["trigger"] = NaN
               /\ \A k \in DOMAIN sampler.outputs :
                     sampler.outputs[k] = sampler.graph.root
                         => LastRecord[OutputKey(k - 1)] = NaN)
    /\ [][(ZeroDivisorRow(call) /\ call'.n_rows = call.n_rows + 1
              /\ ~FEq(Divisor(call'), 0))
             => /\ call'.pushed
                /\ IsNum(LastRecord'["trigger"])
                /\ LastRecord'["trigger"] * Divisor(call') = Dividend(call') * One
                /\ \A k \in DOMAIN sampler.outputs :
                      sampler.outputs[k] = sampler.graph.root
                          => LastRecord'[OutputKey(k - 1)] = LastRecord'["trigger"]]_vars

\* a / b on {a: 1, b: 0} and then on {a: 1, b: 1}: NaN, then 1.0.
C16_Witness ==
    /\ sampler.graph = ArenaDiv
    /\ Len(call.results) = 2
    /\ call.results[1]["trigger"] = NaN /\ call.results[2]["trigger"] = One
    /\ Len(sampler.outputs) = 2
    /\ call.results[1]["output0"] = NaN /\ call.results[2]["output0"] = One

\* The arena lists every node after its children.
ArenaTopological(arena) ==
    \A i \in DOMAIN arena.nodes : \A c \in ArenaChildren(arena.nodes[i]) : c < i

\* Sum and product of the values of a list of children.
RECURSIVE SumOfChildren(_, _)
SumOfChildren(values, children) ==
    IF children = <<>> THEN 0
    ELSE FAdd(SumOfChildren(values, SubSeq(children, 1, Len(children) - 1)),
              values[children[Len(children)]])

RECURSIVE ProductOfChildren(_, _)
ProductOfChildren(values, children) ==
    IF children = <<>> THEN One
    ELSE FMul(ProductOfChildren(values, SubSeq(children, 1, Len(children) - 1)),
              values[children[Len(children)]])

\* v is what a node of this kind has, given the values of its children.
KindDefines(node, values, row, v) ==
    CASE node.tag = "input" ->
            v = (IF node.name \in DOMAIN row THEN row[node.name] ELSE 0)
      [] node.tag = "const" -> v = node.value
      [] node.tag = "add" -> v = SumOfChildren(values, node.children)
      [] node.tag = "mul" -> v = ProductOfChildren(values, node.children)
      [] node.tag = "div" ->
            IF values[node.right] = 0 \/ ~IsNum(values[node.left])
                                      \/ ~IsNum(values[node.right])
            THEN v = NaN
            ELSE IsNum(v) /\ v * values[node.right] = values[node.left] * One

\* C17: after the sweep of a row over a topologically ordered arena, every
\* node holds the value its kind defines from the values of its children.
C17_SweepValues ==
    (call.n_rows > 0 /\ ArenaTopological(sampler.graph))
        => \A i \in DOMAIN sampler.graph.nodes :
              KindDefines(sampler.graph.nodes[i], call.values, call.row, call.values[i])

\* ArenaKinds on a row without "a": the Input reads 0.0, the empty Add is
\* 0.0, the empty Mul is 1.0, and the root is ((0 + 2 + 1) * 2) / 1 = 6.
C17_Witness ==
    /\ sampler.graph = ArenaKinds
    /\ call.n_rows > 0
    /\ DOMAIN call.row = {}
    /\ call.values[0] = 0 /\ call.values[2] = 0 /\ call.values[3] = One
    /\ call.values[6] = 6 * One

---------------------------------------------------------------------------
(* Properties of Dag::execute and Dag::get_node_output                     *)

\* Node::output_schema: the names of the outputs of a node.
OutputNames(node) == IF node.type = "Constant" THEN {"value"} ELSE {"result"}

\* The last call was a get_node_output for a node of the Dag and one of
\* the outputs of that node.
QueryExists ==
    /\ Unwrap(outcome).call = "get_node_output"
    /\ Unwrap(Unwrap(outcome).node_id) \in DOMAIN Unwrap(dag).value.nodes
    /\ Unwrap(Unwrap(outcome).output_name)
          \in OutputNames(Unwrap(dag).value.nodes[Unwrap(Unwrap(outcome).node_id)].node)

\* The value of an output of a node as the expression below it defines it,
\* if it defines one: a Constant's "value" is its value; the "result" of an
\* Add or a Multiply is the sum or the product of the numbers that the
\* connections of its inputs "a" and "b" lead to.
RECURSIVE ExprValue(_, _, _)
ExprValue(nodes, n, out) ==
    LET node == nodes[n].node
        Operand(name) ==
            IF name \notin DOMAIN nodes[n].inputs THEN None
            ELSE LET c == nodes[n].inputs[name]
                     v == ExprValue(nodes, c.source_node, c.source_output)
                 IN  IF v = None \/ Unwrap(v).kind # "Float" THEN None ELSE v
    IN  IF out \notin OutputNames(node) THEN None
        ELSE IF node.type = "Constant" THEN Some(node.value)
        ELSE IF Operand("a") = None \/ Operand("b") = None THEN None
        ELSE IF node.type = "Add"
             THEN Some(FloatValue(Unwrap(Operand("a")).f + Unwrap(Operand("b")).f))
             ELSE Some(FloatValue((Unwrap(Operand("a")).f * Unwrap(Operand("b")).f) \div One))

\* Every node of the Dag has the operands it needs.
AllDefined(nodes) ==
    \A n \in DOMAIN nodes : \A out \in OutputNames(nodes[n].node) :
        IsSome(ExprValue(nodes, n, out))

C19_NoRuntimeError ==
    (IsSome(outcome) /\ (Unwrap(outcome).call = "execute" \/ QueryExists))
        => Unwrap(outcome).returned.ok

---------------------------------------------------------------------------
(* LazyEngine against TopologicalEngine                                    *)

---------------------------------------------------------------------------
(* Sampler::run from one call to the next                                  *)

\* What a Sampler::run call that starts without a last trigger has pushed
\* after the rows: results and the last trigger, row by row from rows[k].
RECURSIVE RunFrom(_, _, _, _, _)
RunFrom(s, rows, k, prev_trigger, results) ==
    IF k > Len(rows) THEN results
    ELSE LET values == EvalAll(s.graph.nodes, rows[k], Fill(VecLen(s.graph.nodes), 0), 0)
             trigger_val == values[s.graph.root]
         IN  IF TriggerFires(prev_trigger, trigger_val)
             THEN RunFrom(s, rows, k + 1, Some(trigger_val),
                          Append(results, Record(trigger_val, s.outputs, values)))
             ELSE RunFrom(s, rows, k + 1, prev_trigger, results)

\* C38: Sampler::run keeps no state between calls.  The results of a call
\* are those of a run of its rows that starts without a last trigger,
\* whatever calls came before: they depend on the graph, the outputs and
\* the rows of the call alone, so equal rows give equal results in two
\* successive calls, each call emitting its first row.
C38_NoStateBetweenCalls ==
    /\ [](call.active \/ call.returned = Some("Ok")
            => call.results = RunFrom(sampler, call.rows, 1, None, <<>>))
    /\ [][(call.n_rows = 0 /\ call'.n_rows = 1) => call'.pushed]_vars

\* The second call of a Sampler has returned, having emitted its first row
\* and not its second.
C38_Witness ==
    /\ call.calls = 2 /\ ~call.active /\ call.returned = Some("Ok")
    /\ Len(call.rows) = 2 /\ Len(call.results) = 1

---------------------------------------------------------------------------
(* Properties of the Arena                                                 *)

\* The step is an insert call, described by handed'.last.
InsertCall == IsSome(handed'.last) /\ Unwrap(handed'.last).call = "insert"

\* The step is an insert with an original id that an earlier insert had.
SeenBefore ==
    /\ IsSome(Unwrap(handed'.last).original_id)
    /\ Unwrap(Unwrap(handed'.last).original_id) \in DOMAIN handed.first

\* C36: Arena::insert hands out dense ids from 0 and never reuses or
\* reassigns one.  An insert with a new or no original id returns the
\* length before the call and appends its node; an insert with an original
\* id seen before returns the id that was returned the first time and
\* leaves nodes and length as they were; no call changes a node that is
\* stored, so get(id) keeps returning the node first stored under id.
C36_StableIds ==
    /\ [][InsertCall
             => IF SeenBefore
                THEN /\ Unwrap(handed'.last).returned
                           = handed.first[Unwrap(Unwrap(handed'.last).original_id)]
                     /\ the_arena'.nodes = the_arena.nodes
                ELSE /\ Unwrap(handed'.last).returned = Len(the_arena.nodes)
                     /\ the_arena'.nodes
                           = Append(the_arena.nodes, Unwrap(handed'.last).node)]_vars
    /\ [][\A id \in 0..(Len(the_arena.nodes) - 1) :
             ArenaGet(the_arena', id) = ArenaGet(the_arena, id)]_vars
    /\ [](IsSome(handed.last) /\ Unwrap(handed.last).call = "get"
            => Unwrap(handed.last).returned
                  = IF Unwrap(handed.last).id < Len(the_arena.nodes)
                    THEN Some(the_arena.nodes[Unwrap(handed.last).id + 1]) ELSE None)

\* An insert under an original id seen before, with a node other than the
\* one stored, has returned the first id, which is not the last one.
C36_Witness ==
    /\ IsSome(handed.last) /\ Unwrap(handed.last).call = "insert"
    /\ IsSome(Unwrap(handed.last).original_id)
    /\ Len(the_arena.nodes) >= 2
    /\ Unwrap(handed.last).returned < Len(the_arena.nodes) - 1
    /\ the_arena.nodes[Unwrap(handed.last).returned + 1] # Unwrap(handed.last).node

---------------------------------------------------------------------------
(* Properties of the engines of engines.rs against each other              *)

\* What TopologicalEngine::evaluate returns for the rows: one record per
\* row, in row order.
TopologicalResults(c) ==
    [k \in DOMAIN c.rows |-> TopologicalRecord(c.nodes, c.root, c.outputs, c.rows[k])]

\* C35: ParallelEngine::evaluate returns exactly the records
\* TopologicalEngine::evaluate returns, in the order of the rows, whatever
\* the interleaving of the evaluations of the rows; and the record a task
\* produces is that of its own row alone.
C35_ParallelAsTopological ==
    (IsSome(evaluation) /\ Unwrap(evaluation).name = "parallel")
        => LET c == Unwrap(evaluation)
           IN  /\ c.returned => c.results = TopologicalResults(c)
               /\ \A k \in DOMAIN c.tasks :
                      IsSome(c.tasks[k].record)
                          => Unwrap(c.tasks[k].record) = TopologicalResults(c)[k]

\* Two rows with different records were evaluated, the second finished
\* first, and the call has returned.
C35_Witness ==
    /\ IsSome(evaluation) /\ Unwrap(evaluation).name = "parallel"
    /\ LET c == Unwrap(evaluation)
       IN  /\ c.returned /\ c.done = <<2, 1>>
           /\ c.results[1] # c.results[2]

\* C34: on a node list in topological order, LazyEngine::evaluate returns
\* for every row the trigger and output values TopologicalEngine::evaluate
\* returns, also when the root or an output is a node with children that
\* were not asked for.
C34_LazyAsTopological ==
    (IsSome(evaluation) /\ ArenaTopological(Unwrap(evaluation)))
        => LET c == Unwrap(evaluation)
           IN  \A k \in DOMAIN c.results :
                   c.results[k] = TopologicalRecord(c.nodes, c.root, c.outputs, c.rows[k])

====
